---- MODULE Spec2Model ----
(***************************************************************************)
(* Model of the polymarket account analyzer: the hard-override engine of   *)
(* eval/skilled_analyzer.py, the executor pipeline of                      *)
(* agent/executor/agent.py that is meant to call it, the six analysis      *)
(* skills of skills/, and the self-improver of agent/improver/agent.py     *)
(* with the training loop of orchestrator.py.                              *)
(*                                                                         *)
(* Units.  Python floats are modelled by exact integers:                   *)
(*   avg_position_size   dollars                                           *)
(*   win_rate            basis points       (5500 = 0.55)                  *)
(*   profit_factor       hundredths         (120  = 1.20)                  *)
(*   coefficient_of_variation  hundredths   (150  = 1.50)                  *)
(*   sharpe_score        hundredths         (80   = 0.80)                  *)
(*   avg_entry_price     hundredths         (45   = 0.45)                  *)
(*   low_odds_pct        percent            (30   = 0.30)                  *)
(* A ratio a/b compared with a literal p/q is modelled by a*q ? p*b.       *)
(* None is the empty sequence, a present value v the sequence <<v>>.       *)
(***************************************************************************)
EXTENDS Integers, Sequences, FiniteSets, TLC

VARIABLES
    data,           \* the thesis dict: primary_strategy, secondary_strategies, evidence
    sizing,         \* SizingAnalysis fields the engine reads
    flow,           \* FlowAnalysis fields the engine reads
    markets,        \* MarketAnalysis.category_counts, in most_common() order
    num_positions,  \* len(positions)
    profile,        \* WalletProfile.sharpe_score, or None
    llm,            \* the validated dict handed to the first invocation (history)
    once,           \* the dict returned by the first invocation (history)
    fired,          \* rules whose condition held in the latest invocation (history)
    answer,         \* run_analysis: the JSON object the LLM call returns
    locals,         \* run_analysis: which of sizing, flow, markets are bound
    errors,         \* run_analysis: logger.log_error entries, in order
    thesis,         \* run_analysis: the WalletThesis returned, or None
    positions,      \* the position list handed to the analyzers
    results,        \* the win/loss list handed to _compute_streaks
    analysis,       \* what the analyzers (or the hint generator) returned, or None
    files,          \* the files under src/: location -> content (improver)
    cycles,         \* the improvement cycles run so far, in order (history)
    pc              \* position of the caller

vars == <<data, sizing, flow, markets, num_positions, profile, llm, once, fired,
          answer, locals, errors, thesis, positions, results, analysis,
          files, cycles, pc>>

(***************************************************************************)
(* eval/models.py: the closed set of strategy labels.                      *)
(***************************************************************************)
StrategyType ==
    {"info_edge", "model_based", "market_maker", "contrarian", "momentum",
     "hedger", "arbitrage", "whale", "scalper", "unknown"}

Range(s) == {s[i] : i \in 1..Len(s)}

None == <<>>
Some(v) == <<v>>

(***************************************************************************)
(* Substring tests the engine makes on category names ('sport' in c,       *)
(* 'politic' in c, ...), tabulated over the names CATEGORY_RULES and the   *)
(* "other" fallback of _categorize_market can produce.                     *)
(***************************************************************************)
Categories ==
    {"sports_betting", "politics", "crypto", "economics", "entertainment",
     "science_tech", "weather", "other"}

Contains(cat, kw) ==
    \/ kw = "sport" /\ cat = "sports_betting"
    \/ kw = "politic" /\ cat = "politics"
    \/ kw = "crypto" /\ cat = "crypto"
    \* no category name contains "news" or "election"

RECURSIVE SumCounts(_)
SumCounts(cc) == IF cc = <<>> THEN 0 ELSE cc[1].count + SumCounts(Tail(cc))

\* list(cat_counts.keys())[:5] and list(cat_counts.values())[:5], kept as pairs
Top5(cc) == SubSeq(cc, 1, IF Len(cc) < 5 THEN Len(cc) ELSE 5)

\* total_cat = sum(cat_values) if cat_values else 1
TotalCat(cc) == IF Top5(cc) = <<>> THEN 1 ELSE SumCounts(Top5(cc))

SportsIsTop(cc) == Len(Top5(cc)) > 0 /\ Contains(Top5(cc)[1].cat, "sport")

\* sports_dominant = sports_is_top and cat_values[0] / total_cat > 0.40
SportsDominant(cc) ==
    /\ SportsIsTop(cc)
    /\ TotalCat(cc) > 0
    /\ Top5(cc)[1].count * 100 > 40 * TotalCat(cc)

\* has_politics_news: a keyword occurs in str(top_cats).lower()
HasPoliticsNews(cc) ==
    \E i \in 1..Len(Top5(cc)) :
        \E kw \in {"politic", "news", "election", "crypto"} : Contains(Top5(cc)[i].cat, kw)

\* sum(v for c, v in cat_counts.items() if any(kw in c ...)): over ALL categories
RECURSIVE CountWhere(_, _)
CountWhere(cc, kws) ==
    IF cc = <<>> THEN 0
    ELSE (IF \E kw \in kws : Contains(cc[1].cat, kw) THEN cc[1].count ELSE 0)
         + CountWhere(Tail(cc), kws)

\* politics_pct > 0.25, politics_pct = politics_count / total_cat
PoliticsHeavy(cc) ==
    /\ TotalCat(cc) > 0
    /\ CountWhere(cc, {"politic", "news", "election"}) * 100 > 25 * TotalCat(cc)

\* crypto_pct > 0.60, crypto_pct = crypto_cats / total_cat
CryptoHeavy(cc) ==
    /\ TotalCat(cc) > 0
    /\ CountWhere(cc, {"crypto"}) * 100 > 60 * TotalCat(cc)

\* crypto_dominant: 'crypto' in top_cats[0] and cat_values[0] / total_cat > 0.60
CryptoDominant(cc) ==
    /\ Len(Top5(cc)) > 0
    /\ Contains(Top5(cc)[1].cat, "crypto")
    /\ Top5(cc)[1].count * 100 > 60 * TotalCat(cc)

(***************************************************************************)
(* Defaults of the flow and profile reads.                                 *)
(***************************************************************************)
\* win_rate = getattr(flow, 'win_rate', None) or 0.5 : a falsy 0 becomes 0.5
WinRate(fl) == IF fl.win_rate = 0 THEN 5000 ELSE fl.win_rate

\* profit_factor = getattr(flow, 'profit_factor', None) or 1.0
ProfitFactor(fl) == IF fl.profit_factor = 0 THEN 100 ELSE fl.profit_factor

\* variant: an absent metric read as a negative one
SharpeNegativeOrAbsent(sharpe) == sharpe = None \/ sharpe[1] < 0

\* sharpe is not None and sharpe < 0
SharpeNegative(sharpe) == sharpe # None /\ sharpe[1] < 0

\* sharpe is not None and sharpe > 0.8
SharpeStrong(sharpe) == sharpe # None /\ sharpe[1] > 80

\* low_entry = avg_entry_price < 0.45 or low_odds_pct > 0.30
LowEntry(sz) == sz.avg_entry_price < 45 \/ sz.low_odds_pct > 30

(***************************************************************************)
(* edge = win_rate - 0.5 is a double subtraction.  It is exact except at   *)
(* win_rate = 0.53, where 0.53 - 0.5 = 0.030000000000000027 > 0.03; at     *)
(* 0.47, 0.48, 0.52 and 0.65 the rounded difference lies on the same side  *)
(* of the literal as the exact one.                                        *)
(***************************************************************************)
EdgeAbove3(wr) == wr >= 5300                   \* edge > 0.03
AbsEdgeBelow3(wr) == 4700 < wr /\ wr < 5300    \* abs(edge) < 0.03
EdgeBelow15(wr) == wr < 6500                   \* edge < 0.15
AbsEdgeBelow2(wr) == 4800 < wr /\ wr < 5200    \* abs(win_rate - 0.5) < 0.02

(***************************************************************************)
(* _do_override: demote the INPUT label `predicted` into the secondary     *)
(* list unless it is already there, set the primary label, append reason.  *)
(***************************************************************************)
\* variant: the demotion without the membership test
DoOverrideAlwaysAppend(d, predicted, new_strategy, reason) ==
    [primary_strategy |-> new_strategy,
     secondary_strategies |-> Append(d.secondary_strategies, predicted),
     evidence |-> Append(d.evidence, reason)]

DoOverride(d, predicted, new_strategy, reason) ==
    [primary_strategy |-> new_strategy,
     secondary_strategies |->
        IF predicted \in Range(d.secondary_strategies)
        THEN d.secondary_strategies
        ELSE Append(d.secondary_strategies, predicted),
     evidence |-> Append(d.evidence, reason)]

(***************************************************************************)
(* ANTI-WHALE (small average, high count): the if/elif/elif/else chain     *)
(* that chooses the replacement label.                                     *)
(***************************************************************************)
\* variant: the scalper branch tested before the low-CV model_based branch
AntiWhaleTargetScalperFirst(wr, cv, n) ==
    IF n > 20000 /\ AbsEdgeBelow3(wr) THEN "market_maker"
    ELSE IF n > 5000 /\ EdgeAbove3(wr) /\ EdgeBelow15(wr) THEN "scalper"
    ELSE IF n > 2000 /\ EdgeAbove3(wr) /\ cv < 150 THEN "model_based"
    ELSE "model_based"

AntiWhaleTarget(wr, cv, n) ==
    IF n > 20000 /\ AbsEdgeBelow3(wr) THEN "market_maker"
    ELSE IF n > 2000 /\ EdgeAbove3(wr) /\ cv < 150 THEN "model_based"
    ELSE IF n > 5000 /\ EdgeAbove3(wr) /\ EdgeBelow15(wr) THEN "scalper"
    ELSE "model_based"

\* the (very tight) MARKET MAKER OVERRIDE's choice of label
MarketMakerTarget(cc) == IF CryptoDominant(cc) THEN "scalper" ELSE "market_maker"

\* the guard of the MARKET MAKER OVERRIDE on the candidate label
MarketMakerGuard(predicted) == predicted # "market_maker"

(***************************************************************************)
(* The rule sequence of _apply_hard_overrides in code order.  Every guard  *)
(* reads `predicted`, the label the invocation was entered with.  Each     *)
(* entry: the rule's name (it stands for the reason string), whether its   *)
(* _do_override call is reached, and the label it sets.                    *)
(***************************************************************************)
Rules(predicted, sz, fl, cc, n, sharpe) ==
    LET avg_pos == sz.avg_position_size
        cv == sz.coefficient_of_variation
        wr == WinRate(fl)
        pf == ProfitFactor(fl)
        sports_dominant == SportsDominant(cc)
        has_politics_news == HasPoliticsNews(cc)
        news_signal == PoliticsHeavy(cc) /\ LowEntry(sz) /\ pf > 110
        is_exceptional == wr > 7500 \/ pf > 300
    IN  <<
        [name |-> "sports_whale", target |-> "whale",
         fires |-> predicted # "whale" /\ avg_pos > 100000 /\ n < 5000 /\ sports_dominant],
        [name |-> "general_whale", target |-> "whale",
         fires |-> /\ predicted # "whale" /\ avg_pos > 300000 /\ n < 2500
                   /\ ~has_politics_news
                   /\ (wr < 5500 \/ SharpeNegative(sharpe))],
        [name |-> "info_edge_rescue_exceptional", target |-> "info_edge",
         fires |-> /\ predicted = "whale" /\ has_politics_news /\ ~sports_dominant
                   /\ is_exceptional],
        [name |-> "info_edge_rescue_news", target |-> "info_edge",
         fires |-> /\ predicted = "whale" /\ has_politics_news /\ ~sports_dominant
                   /\ ~is_exceptional
                   /\ PoliticsHeavy(cc) /\ pf > 110 /\ LowEntry(sz)],
        [name |-> "model_based_rescue", target |-> "model_based",
         fires |-> /\ predicted = "whale" /\ n > 500 /\ cv < 120
                   /\ wr > 5500 /\ pf > 120],
        [name |-> "model_based_rescue_sports", target |-> "model_based",
         fires |-> /\ predicted = "whale" /\ sports_dominant /\ n > 2000
                   /\ wr > 5800 /\ pf > 105 /\ avg_pos < 50000],
        [name |-> "model_based_rescue_sharpe", target |-> "model_based",
         fires |-> /\ predicted = "whale" /\ sports_dominant /\ 500 <= n /\ n <= 2000
                   /\ SharpeStrong(sharpe) /\ wr > 6000],
        [name |-> "model_based_rescue_moderate", target |-> "model_based",
         fires |-> /\ predicted = "whale" /\ sports_dominant /\ 500 <= n /\ n <= 2000
                   /\ wr > 6000 /\ pf > 120 /\ avg_pos < 100000],
        [name |-> "anti_whale_small", target |-> AntiWhaleTarget(wr, cv, n),
         fires |-> predicted = "whale" /\ avg_pos < 10000 /\ n > 3000],
        [name |-> "anti_whale_medium", target |-> "model_based",
         fires |-> /\ predicted = "whale" /\ avg_pos < 50000 /\ n > 10000
                   /\ EdgeAbove3(wr) /\ cv < 200],
        [name |-> "model_based_to_info_edge", target |-> "info_edge",
         fires |-> /\ predicted = "model_based" /\ has_politics_news /\ ~sports_dominant
                   /\ PoliticsHeavy(cc) /\ LowEntry(sz) /\ pf > 110],
        [name |-> "info_edge_to_model_based", target |-> "model_based",
         fires |-> /\ predicted = "info_edge" /\ ~sports_dominant
                   /\ ~is_exceptional /\ ~news_signal /\ n > 500],
        [name |-> "contrarian", target |-> "contrarian",
         fires |-> /\ predicted \in {"scalper", "model_based"} /\ ~sports_dominant
                   /\ CryptoHeavy(cc)
                   /\ 45 <= sz.avg_entry_price /\ sz.avg_entry_price <= 55
                   /\ 500 < n /\ n < 5000],
        [name |-> "info_edge_sports", target |-> "model_based",
         fires |-> /\ predicted = "info_edge" /\ sports_dominant
                   /\ wr > 5500 /\ pf > 110],
        [name |-> "scalper_sports", target |-> "model_based",
         fires |-> predicted = "scalper" /\ sports_dominant /\ wr > 5800],
        [name |-> "scalper_high_count_cv", target |-> "model_based",
         fires |-> /\ predicted = "scalper" /\ sports_dominant /\ n > 15000
                   /\ cv < 50],
        [name |-> "scalper_high_count_volume", target |-> "model_based",
         fires |-> /\ predicted = "scalper" /\ sports_dominant /\ n > 15000
                   /\ ~(cv < 50)
                   /\ n > 20000 /\ wr > 5100 /\ pf > 100],
        [name |-> "market_maker_sports", target |-> "model_based",
         fires |-> /\ predicted = "market_maker" /\ sports_dominant
                   /\ EdgeAbove3(wr) /\ pf > 105],
        [name |-> "market_maker_rescue", target |-> "model_based",
         fires |-> predicted = "market_maker" /\ wr > 5300 /\ pf > 105],
        [name |-> "market_maker_override", target |-> MarketMakerTarget(cc),
         fires |-> /\ MarketMakerGuard(predicted) /\ n > 30000 /\ avg_pos < 150000
                   /\ AbsEdgeBelow2(wr) /\ pf < 110]
        >>

\* reason strings that format the Sharpe value with {sharpe:.2f}; formatting
\* None that way raises TypeError
FormatsSharpe(name) == name = "model_based_rescue_sharpe"

(***************************************************************************)
(* The rules run top to bottom on the dict, which is mutated in place;     *)
(* each rule that fires builds its reason string and calls _do_override.   *)
(* An exception while building a reason leaves the earlier mutations.      *)
(* The result also lists the rules whose condition held (history).         *)
(***************************************************************************)
RunRules(d, predicted, rules, sharpe) ==
    LET RECURSIVE From(_, _, _)
        From(i, acc, names) ==
            IF i > Len(rules) THEN [data |-> acc, raised |-> FALSE, fired |-> names]
            ELSE IF ~rules[i].fires THEN From(i + 1, acc, names)
            ELSE IF FormatsSharpe(rules[i].name) /\ sharpe = None
                 THEN [data |-> acc, raised |-> TRUE, fired |-> Append(names, rules[i].name)]
            ELSE From(i + 1,
                      DoOverride(acc, predicted, rules[i].target, rules[i].name),
                      Append(names, rules[i].name))
    IN  From(1, d, <<>>)

\* sharpe = getattr(profile, 'sharpe_score', None) if profile else None
Sharpe(prof) == IF prof = None THEN None ELSE prof[1].sharpe_score

\* variant: every guard reads the label the dict carries when the rule is
\* reached, so a rule sees the label an earlier rule of the same pass has set
ApplyHardOverridesChained(d, sz, fl, cc, n, prof) ==
    LET sharpe == Sharpe(prof)
        count == Len(Rules(d.primary_strategy, sz, fl, cc, n, sharpe))
        RECURSIVE From(_, _, _)
        From(i, acc, names) ==
            IF i > count THEN [data |-> acc, raised |-> FALSE, fired |-> names]
            ELSE LET rule == Rules(acc.primary_strategy, sz, fl, cc, n, sharpe)[i]
                 IN  IF ~rule.fires THEN From(i + 1, acc, names)
                     ELSE From(i + 1,
                               DoOverride(acc, acc.primary_strategy, rule.target, rule.name),
                               Append(names, rule.name))
    IN  From(1, d, <<>>)

\* _apply_hard_overrides(data, sizing, flow, markets, num_positions, profile)
ApplyHardOverrides(d, sz, fl, cc, n, prof) ==
    LET sharpe == Sharpe(prof)
        rules == Rules(d.primary_strategy, sz, fl, cc, n, sharpe)
    IN  RunRules(d, d.primary_strategy, rules, sharpe)

(***************************************************************************)
(* Callers of the engine on analyzer results: the inputs are drawn from    *)
(* grids that put values on both sides of the engine's thresholds.         *)
(***************************************************************************)
MaxSecondary == 2   \* longest secondary_strategies list the LLM answer carries
MaxEvidence == 1    \* longest evidence list the LLM answer carries

SeqsUpTo(S, k) == UNION {[1..m -> S] : m \in 0..k}

\* category_counts = dict(cat_counts.most_common()) of a wallet of n positions
\* whose categories have the given percentages (largest first)
RECURSIVE RestCounts(_, _)
RestCounts(shape, n) ==
    IF shape = <<>> THEN <<>>
    ELSE <<[cat |-> shape[1].cat, count |-> (shape[1].pct * n) \div 100]>>
         \o RestCounts(Tail(shape), n)

CatCounts(shape, n) ==
    LET rest == RestCounts(Tail(shape), n)
    IN  <<[cat |-> shape[1].cat, count |-> n - SumCounts(rest)]>> \o rest

SportsShape == <<[cat |-> "sports_betting", pct |-> 90], [cat |-> "politics", pct |-> 10]>>
PoliticsShape == <<[cat |-> "politics", pct |-> 70], [cat |-> "sports_betting", pct |-> 30]>>
CryptoShape == <<[cat |-> "crypto", pct |-> 75], [cat |-> "other", pct |-> 25]>>
CryptoMinorShape == <<[cat |-> "crypto", pct |-> 60], [cat |-> "other", pct |-> 40]>>
OtherShape == <<[cat |-> "other", pct |-> 60], [cat |-> "economics", pct |-> 40]>>

NoProfile == {None}
ProfileWith(S) == {Some([sharpe_score |-> s]) : s \in S}

InitOverride(g) ==
    /\ \E c \in g.cands : \E sec \in g.secs[c], ev \in g.evs :
          data = [primary_strategy |-> c, secondary_strategies |-> sec, evidence |-> ev]
    /\ \E a \in g.avgs, cv \in g.cvs, e \in g.entries, lo \in g.low_odds :
          sizing = [avg_position_size |-> a, coefficient_of_variation |-> cv,
                    avg_entry_price |-> e, low_odds_pct |-> lo]
    /\ \E w \in g.win_rates, f \in g.factors : flow = [win_rate |-> w, profit_factor |-> f]
    /\ num_positions \in g.counts
    /\ \E sh \in g.shapes : markets = CatCounts(sh, num_positions)
    /\ profile \in g.profiles
    /\ llm = data
    /\ once = data
    /\ fired = <<>>
    /\ answer = None
    /\ locals = {}
    /\ errors = <<>>
    /\ thesis = None
    /\ positions = <<>>
    /\ results = <<>>
    /\ analysis = None
    /\ files = None
    /\ cycles = <<>>
    /\ pc = "start"

\* data = _apply_hard_overrides(data, sizing, flow, markets, len(positions), profile)
Override ==
    /\ pc = "start"
    /\ LET r == ApplyHardOverrides(data, sizing, flow, markets, num_positions, profile)
       IN  /\ data' = r.data
           /\ once' = r.data
           /\ fired' = r.fired
           /\ pc' = IF r.raised THEN "raised" ELSE "once"
    /\ UNCHANGED <<positions, results, analysis, files, cycles>>
    /\ UNCHANGED <<sizing, flow, markets, num_positions, profile, llm,
                   answer, locals, errors, thesis>>

\* the engine applied to its own output, with the same analyzer results
OverrideAgain ==
    /\ pc = "once"
    /\ LET r == ApplyHardOverrides(data, sizing, flow, markets, num_positions, profile)
       IN  /\ data' = r.data
           /\ fired' = r.fired
           /\ pc' = IF r.raised THEN "raised" ELSE "twice"
    /\ UNCHANGED <<positions, results, analysis, files, cycles>>
    /\ UNCHANGED <<sizing, flow, markets, num_positions, profile, llm, once,
                   answer, locals, errors, thesis>>

NextOverride == Override \/ OverrideAgain

NoSecondary == [c \in StrategyType |-> {<<>>}]

\* secondary lists the LLM may return next to candidate c: any order and
\* multiplicity of c and one other valid label (the validation keeps duplicates)
SecondaryLists ==
    [c \in StrategyType |->
        SeqsUpTo({c, IF c = "hedger" THEN "momentum" ELSE "hedger"}, MaxSecondary)]

EvidenceLists == SeqsUpTo({"llm evidence"}, MaxEvidence)

SixShape ==
    <<[cat |-> "crypto", pct |-> 55], [cat |-> "sports_betting", pct |-> 9],
      [cat |-> "politics", pct |-> 9], [cat |-> "economics", pct |-> 9],
      [cat |-> "entertainment", pct |-> 9], [cat |-> "other", pct |-> 9]>>

(***************************************************************************)
(* Spec: every candidate label over a grid with a value in the main        *)
(* regions of each threshold; the spec's three scenarios are grid points.  *)
(***************************************************************************)
Init ==
    InitOverride([
        cands |-> StrategyType,
        secs |-> NoSecondary,
        evs |-> {<<"llm evidence">>},
        avgs |-> {3000, 30000, 200000, 400000},
        cvs |-> {30, 80, 170},
        entries |-> {40, 50},
        low_odds |-> {10},
        win_rates |-> {5050, 5700, 6100, 8000},
        factors |-> {102, 130, 350},
        counts |-> {200, 1000, 6000, 35000},
        shapes |-> {SportsShape, PoliticsShape, CryptoShape, OtherShape},
        profiles |-> NoProfile \union ProfileWith({Some(100)})])

Spec == Init /\ [][NextOverride]_vars

(***************************************************************************)
(* SpecAntiWhale: candidate whale with a small average position, dense in  *)
(* position count, win rate, profit factor, CV and category mix.           *)
(***************************************************************************)
InitAntiWhale ==
    InitOverride([
        cands |-> {"whale"},
        secs |-> NoSecondary,
        evs |-> {<<"llm evidence">>},
        avgs |-> {3000, 9999, 10000},
        cvs |-> {30, 149, 150, 199, 200, 250},
        entries |-> {50},
        low_odds |-> {10},
        win_rates |-> {0, 4000, 4700, 4701, 4800, 4801, 5050, 5199, 5200, 5299,
                      5300, 5301, 6100, 6499, 6500, 8000},
        factors |-> {0, 90, 102, 109, 110, 130},
        counts |-> {3000, 3001, 5000, 5001, 6000, 10000, 10001, 20000, 20001,
                   30000, 30001, 35000},
        shapes |-> {SportsShape, PoliticsShape, CryptoShape, CryptoMinorShape, SixShape},
        profiles |-> NoProfile])

SpecAntiWhale == InitAntiWhale /\ [][NextOverride]_vars

(***************************************************************************)
(* SpecFrame: every candidate with the secondary and evidence lists the    *)
(* LLM answer may carry, over a grid on which every rule can fire.         *)
(***************************************************************************)
InitFrame ==
    InitOverride([
        cands |-> StrategyType,
        secs |-> SecondaryLists,
        evs |-> EvidenceLists,
        avgs |-> {3000, 200000, 400000},
        cvs |-> {30},
        entries |-> {40},
        low_odds |-> {10},
        win_rates |-> {5050, 6100, 8000},
        factors |-> {102, 130, 350},
        counts |-> {1000, 6000, 35000},
        shapes |-> {SportsShape, PoliticsShape, CryptoShape, OtherShape},
        profiles |-> ProfileWith({Some(100)})])

SpecFrame == InitFrame /\ [][NextOverride]_vars

(***************************************************************************)
(* SpecSharpe: every candidate, dense in the optional Sharpe metric.       *)
(***************************************************************************)
InitSharpe ==
    InitOverride([
        cands |-> StrategyType,
        secs |-> NoSecondary,
        evs |-> {<<"llm evidence">>},
        avgs |-> {30000, 400000},
        cvs |-> {80, 170},
        entries |-> {50},
        low_odds |-> {10},
        win_rates |-> {5050, 5500, 6000, 6100},
        factors |-> {102, 130},
        counts |-> {200, 500, 2000, 2400, 2500},
        shapes |-> {SportsShape, PoliticsShape, OtherShape},
        profiles |-> NoProfile \union
                     ProfileWith({None, Some(-50), Some(-1), Some(0), Some(50),
                                  Some(80), Some(81), Some(100)})])

SpecSharpe == InitSharpe /\ [][NextOverride]_vars

(***************************************************************************)
(* agent/executor/agent.py: run_analysis, the executor's entry point.      *)
(***************************************************************************)
\* skills/__init__.py: the analyze_* callables the package exports, in the
\* order dir(skills) lists them
SkillsExports ==
    <<"analyze_flow", "analyze_markets", "analyze_patterns", "analyze_sizing",
      "analyze_timing">>

\* eval/skilled_analyzer.py: from skills import analyze_timing, ...
SkilledAnalyzerImports ==
    {"analyze_timing", "analyze_sizing", "analyze_markets", "analyze_flow",
     "analyze_patterns", "analyze_correlations"}

\* `from eval.skilled_analyzer import ...` succeeds iff the module's own
\* imports resolve; a failed import is retried (and fails) at every attempt
ImportSucceeds == SkilledAnalyzerImports \subseteq Range(SkillsExports)

\* name.replace("analyze_", "")
Stem(name) ==
    CASE name = "analyze_flow" -> "flow"
      [] name = "analyze_markets" -> "markets"
      [] name = "analyze_patterns" -> "patterns"
      [] name = "analyze_sizing" -> "sizing"
      [] name = "analyze_timing" -> "timing"

\* discover_skills: registry keys name.replace("analyze_", "") + "_analysis"
discover_skills == [i \in 1..Len(SkillsExports) |-> Stem(SkillsExports[i]) \o "_analysis"]

\* the local a skill's raw result is stored in, by registry key
Binds(skill_name) ==
    IF skill_name = "sizing_analysis" THEN {"sizing"}
    ELSE IF skill_name = "flow_analysis" THEN {"flow"}
    ELSE IF skill_name = "market_analysis" THEN {"markets"}
    ELSE {}

\* the engine's and the hints' call sites read the locals sizing, flow, markets;
\* reading an unbound local raises UnboundLocalError
LocalsBound == {"sizing", "flow", "markets"} \subseteq locals

\* 'v in strategy.lower() or strategy.lower() in v', over the answers modelled
\* ('' in v holds for every v: an empty label matches every member)
FuzzyMatches(strategy) ==
    CASE strategy = "Whale" -> {"whale"}
      [] strategy = "whale/scalper" -> {"whale", "scalper"}
      [] strategy = "day trader" -> {}
      [] strategy = "" -> StrategyType

\* variant: a label without a fuzzy match is kept as it is
ValidLabelsKeepRaw(strategy) ==
    IF strategy \in StrategyType THEN {strategy}
    ELSE IF FuzzyMatches(strategy) # {} THEN FuzzyMatches(strategy)
    ELSE {strategy}

\* Step 6: the labels the validation may settle on; the loop takes the first
\* match in the iteration order of a set of str, which varies between runs
ValidLabels(strategy) ==
    IF strategy \in StrategyType THEN {strategy}
    ELSE IF FuzzyMatches(strategy) # {} THEN FuzzyMatches(strategy)
    ELSE {"unknown"}

IsValid(s) == s \in StrategyType

\* log_error entries of the skill loop: one per failing skill, registry order
RECURSIVE SkillErrors(_, _)
SkillErrors(i, failing) ==
    IF i > Len(discover_skills) THEN <<>>
    ELSE (IF discover_skills[i] \in failing THEN <<"Skill failed">> ELSE <<>>)
         \o SkillErrors(i + 1, failing)

InitRun ==
    /\ \E a \in {3000, 400000} :
          sizing = [avg_position_size |-> a, coefficient_of_variation |-> 80,
                    avg_entry_price |-> 50, low_odds_pct |-> 10]
    /\ \E w \in {5050, 6100} : flow = [win_rate |-> w, profit_factor |-> 130]
    /\ num_positions \in {0, 1000, 6000}
    /\ \E sh \in {SportsShape, OtherShape} : markets = CatCounts(sh, num_positions)
    /\ profile \in NoProfile \union ProfileWith({None})
    /\ data = None
    /\ llm = None
    /\ once = None
    /\ fired = <<>>
    /\ answer = None
    /\ locals = {}
    /\ errors = <<>>
    /\ thesis = None
    /\ positions = <<>>
    /\ results = <<>>
    /\ analysis = None
    /\ files = None
    /\ cycles = <<>>
    /\ pc = "start"

\* Step 1: fetch; an empty position list ends the run with ValueError
Fetch ==
    /\ pc = "start"
    /\ \E fetched \in BOOLEAN :
          IF ~fetched
          THEN errors' = Append(errors, "Data fetch failed") /\ pc' = "failed"
          ELSE IF num_positions = 0
          THEN errors' = Append(errors, "No positions found") /\ pc' = "failed"
          ELSE errors' = errors /\ pc' = "skills"
    /\ UNCHANGED <<positions, results, analysis, files, cycles>>
    /\ UNCHANGED <<data, sizing, flow, markets, num_positions, profile, llm, once,
                   fired, answer, locals, thesis>>

\* Step 2: every registered skill runs; a result is kept in a local only
\* under the three literal keys; a failing skill is logged and skipped
RunSkills ==
    /\ pc = "skills"
    /\ \E failing \in SUBSET Range(discover_skills) :
          /\ locals' = UNION {Binds(s) : s \in Range(discover_skills) \ failing}
          /\ errors' = errors \o SkillErrors(1, failing)
    /\ pc' = "hints"
    /\ UNCHANGED <<positions, results, analysis, files, cycles>>
    /\ UNCHANGED <<data, sizing, flow, markets, num_positions, profile, llm, once,
                   fired, answer, thesis>>

\* Step 4: rule-based hints, inside try/except
Hints ==
    /\ pc = "hints"
    /\ errors' = IF ImportSucceeds /\ LocalsBound THEN errors
                 ELSE Append(errors, "Rule-based hints failed")
    /\ pc' = "llm"
    /\ UNCHANGED <<positions, results, analysis, files, cycles>>
    /\ UNCHANGED <<data, sizing, flow, markets, num_positions, profile, llm, once,
                   fired, answer, locals, thesis>>

\* Step 5: the LLM answer; a failed call is logged and re-raised
Synthesize ==
    /\ pc = "llm"
    /\ \/ /\ \E p \in {"whale", "model_based", "Whale", "whale/scalper", "day trader", ""},
                sec \in {<<>>, <<"hedger", "Hedging">>} :
                answer' = [primary_strategy |-> p, secondary_strategies |-> sec,
                           evidence |-> <<"llm evidence">>]
          /\ errors' = errors
          /\ pc' = "validate"
       \/ /\ answer' = answer
          /\ errors' = Append(errors, "LLM synthesis failed")
          /\ pc' = "failed"
    /\ UNCHANGED <<positions, results, analysis, files, cycles>>
    /\ UNCHANGED <<data, sizing, flow, markets, num_positions, profile, llm, once,
                   fired, locals, thesis>>

\* Step 6: validate and fix the strategy, filter the secondary labels
Validate ==
    /\ pc = "validate"
    /\ \E strategy \in ValidLabels(answer.primary_strategy) :
          data' = [primary_strategy |-> strategy,
                   secondary_strategies |-> SelectSeq(answer.secondary_strategies, IsValid),
                   evidence |-> answer.evidence]
    /\ llm' = data'
    /\ pc' = "overrides"
    /\ UNCHANGED <<positions, results, analysis, files, cycles>>
    /\ UNCHANGED <<sizing, flow, markets, num_positions, profile, once, fired,
                   answer, locals, errors, thesis>>

\* Step 7: import and call the engine inside try/except Exception; whatever
\* is raised is logged and the run goes on with the dict as it is by then
HardOverrides ==
    /\ pc = "overrides"
    /\ IF ~(ImportSucceeds /\ LocalsBound)
       THEN /\ errors' = Append(errors, "Hard overrides failed")
            /\ UNCHANGED <<data, fired>>
       ELSE LET r == ApplyHardOverrides(data, sizing, flow, markets, num_positions, profile)
            IN  /\ data' = r.data
                /\ fired' = r.fired
                /\ errors' = IF r.raised THEN Append(errors, "Hard overrides failed")
                             ELSE errors
    /\ pc' = "thesis"
    /\ UNCHANGED <<positions, results, analysis, files, cycles>>
    /\ UNCHANGED <<sizing, flow, markets, num_positions, profile, llm, once,
                   answer, locals, thesis>>

\* thesis = WalletThesis(**data)
BuildThesis ==
    /\ pc = "thesis"
    /\ thesis' = Some(data)
    /\ pc' = "done"
    /\ UNCHANGED <<positions, results, analysis, files, cycles>>
    /\ UNCHANGED <<data, sizing, flow, markets, num_positions, profile, llm, once,
                   fired, answer, locals, errors>>

NextRun == Fetch \/ RunSkills \/ Hints \/ Synthesize \/ Validate \/ HardOverrides \/ BuildThesis

SpecRun == InitRun /\ [][NextRun]_vars

(***************************************************************************)
(* The statistical analyzers of skills/.  A position is a record with the  *)
(* keys of the dicts run_analysis builds: tb (dollars), ap (hundredths),   *)
(* pnl (dollars), ts (unix seconds), t (title), cid, o.  A float quotient  *)
(* a / b is kept exact as the pair [num |-> a, den |-> b] with den > 0;    *)
(* float('inf') is the pair [num |-> 1, den |-> 0].                        *)
(***************************************************************************)
Frac(a, b) == [num |-> a, den |-> b]
Zero == Frac(0, 1)
Inf == Frac(1, 0)

\* f > p / q  and  f < p / q  for q > 0 (an infinite f is above every p / q)
FracAbove(f, p, q) == IF f.den = 0 THEN TRUE ELSE f.num * q > p * f.den
FracBelow(f, p, q) == IF f.den = 0 THEN FALSE ELSE f.num * q < p * f.den

RECURSIVE Sum(_)
Sum(s) == IF s = <<>> THEN 0 ELSE s[1] + Sum(Tail(s))

Max(S) == CHOOSE x \in S : \A y \in S : y <= x
Min(S) == CHOOSE x \in S : \A y \in S : x <= y

\* sorted(positions, key=lambda p: p.get("ts", 0)): a stable sort
RECURSIVE InsertByTs(_, _)
InsertByTs(sorted, p) ==
    IF sorted = <<>> THEN <<p>>
    ELSE IF sorted[Len(sorted)].ts <= p.ts THEN Append(sorted, p)
    ELSE Append(InsertByTs(SubSeq(sorted, 1, Len(sorted) - 1), p), sorted[Len(sorted)])

RECURSIVE SortByTs(_)
SortByTs(ps) ==
    IF ps = <<>> THEN <<>>
    ELSE InsertByTs(SortByTs(SubSeq(ps, 1, Len(ps) - 1)), ps[Len(ps)])

(***************************************************************************)
(* skills/pattern_analyzer.py                                              *)
(***************************************************************************)
\* _compute_streaks, the loop over results: the streaks closed so far (ws, ls)
\* and the streak that is still open
StreakScan(rs) ==
    LET RECURSIVE Scan(_, _, _, _, _)
        Scan(i, is_win, streak_len, ws, ls) ==
            IF i > Len(rs)
            THEN [is_win |-> is_win, streak_len |-> streak_len, ws |-> ws, ls |-> ls]
            ELSE IF rs[i] = is_win THEN Scan(i + 1, is_win, streak_len + 1, ws, ls)
            ELSE Scan(i + 1, rs[i], 1,
                      IF is_win THEN Append(ws, streak_len) ELSE ws,
                      IF is_win THEN ls ELSE Append(ls, streak_len))
    IN  Scan(1, rs[1], 0, <<>>, <<>>)

\* _compute_streaks, the statistics of its two lists win_streaks, loss_streaks
StreakStats(s, win_streaks, loss_streaks) ==
    [max_w |-> IF win_streaks = <<>> THEN 0 ELSE Max(Range(win_streaks)),
     max_l |-> IF loss_streaks = <<>> THEN 0 ELSE Max(Range(loss_streaks)),
     avg_w |-> IF win_streaks = <<>> THEN Zero
               ELSE Frac(Sum(win_streaks), Len(win_streaks)),
     avg_l |-> IF loss_streaks = <<>> THEN Zero
               ELSE Frac(Sum(loss_streaks), Len(loss_streaks)),
     current_streak |-> IF s.is_win THEN s.streak_len ELSE 0 - s.streak_len,
     win_streaks |-> win_streaks,
     loss_streaks |-> loss_streaks]

NoStreaks ==
    [max_w |-> 0, max_l |-> 0, avg_w |-> Zero, avg_l |-> Zero, current_streak |-> 0,
     win_streaks |-> <<>>, loss_streaks |-> <<>>]

\* variant: _compute_streaks without the append of the final streak
ComputeStreaksNoFinal(rs) ==
    IF rs = <<>> THEN NoStreaks
    ELSE StreakStats(StreakScan(rs), StreakScan(rs).ws, StreakScan(rs).ls)

\* _compute_streaks
ComputeStreaks(rs) ==
    IF rs = <<>> THEN NoStreaks
    ELSE LET s == StreakScan(rs)
         IN  StreakStats(s,
                         IF s.is_win THEN Append(s.ws, s.streak_len) ELSE s.ws,
                         IF s.is_win THEN s.ls ELSE Append(s.ls, s.streak_len))

\* PatternAnalysis(total_positions=len(positions)): the dataclass defaults
PatternDefaults(n) ==
    [total_positions |-> n,
     max_win_streak |-> 0, max_loss_streak |-> 0,
     avg_win_streak |-> Zero, avg_loss_streak |-> Zero, current_streak |-> 0,
     max_drawdown |-> 0, max_drawdown_pct |-> Zero, drawdown_duration_positions |-> 0,
     recoveries_from_loss |-> 0, avg_recovery_length |-> Zero,
     size_after_loss_ratio |-> Zero, size_after_win_ratio |-> Zero,
     first_half_winrate |-> Zero, second_half_winrate |-> Zero,
     edge_trend |-> "", pnl_curve_r2 |-> Zero, signals |-> <<>>]

\* cumulative: the running sum of pnl over the sorted positions
Cumulative(sorted_pos) == [i \in 1..Len(sorted_pos) |-> Sum([j \in 1..i |-> sorted_pos[j].pnl])]

\* the running peak/trough scan over cumulative (0-based indices as in the code)
DrawdownScan(cumulative) ==
    LET RECURSIVE Scan(_, _, _, _, _, _, _)
        Scan(i, peak, max_dd, max_dd_peak, dd_start, max_dd_start, max_dd_end) ==
            IF i > Len(cumulative)
            THEN [max_dd |-> max_dd, max_dd_peak |-> max_dd_peak,
                  max_dd_start |-> max_dd_start, max_dd_end |-> max_dd_end]
            ELSE LET val == cumulative[i]
                     peak1 == IF val > peak THEN val ELSE peak
                     dd_start1 == IF val > peak THEN i - 1 ELSE dd_start
                     dd == peak1 - val
                 IN  IF dd > max_dd
                     THEN Scan(i + 1, peak1, dd, peak1, dd_start1, dd_start1, i - 1)
                     ELSE Scan(i + 1, peak1, max_dd, max_dd_peak, dd_start1,
                               max_dd_start, max_dd_end)
    IN  Scan(1, cumulative[1], 0, cumulative[1], 0, 0, 0)

\* recovery from the max drawdown: positions counted from max_dd_end until
\* cumulative is back at max_dd_peak (or the list ends)
RecoveryCount(cumulative, max_dd_end, max_dd_peak) ==
    LET reached == {i \in (max_dd_end + 1)..Len(cumulative) : cumulative[i] >= max_dd_peak}
    IN  IF reached = {} THEN Len(cumulative) - max_dd_end
        ELSE Min(reached) - max_dd_end

\* recoveries_from_loss: wins that end a run of 3 or more losses
RecoveriesFromLoss(rs) ==
    Cardinality({i \in 4..Len(rs) : rs[i] /\ ~rs[i - 1] /\ ~rs[i - 2] /\ ~rs[i - 3]})

CountTrue(rs) == Cardinality({i \in 1..Len(rs) : rs[i]})

\* R^2 of the linear fit of cumulative against the index 0..n-1, for n >= 10:
\* with A = n*ss_xy, B = n*ss_xx, C = n*ss_yy it is A^2 / (B*C)
CurveR2(cumulative) ==
    LET n == Len(cumulative)
        sx == Sum([i \in 1..n |-> i - 1])
        sy == Sum(cumulative)
        A == n * Sum([i \in 1..n |-> (i - 1) * cumulative[i]]) - sx * sy
        B == n * Sum([i \in 1..n |-> (i - 1) * (i - 1)]) - sx * sx
        C == n * Sum([i \in 1..n |-> cumulative[i] * cumulative[i]]) - sy * sy
    IN  IF n >= 10 /\ B > 0 /\ C > 0 THEN Frac(A * A, B * C) ELSE Zero

\* analyze_patterns
AnalyzePatterns(ps) ==
    IF Len(ps) < 2 THEN PatternDefaults(Len(ps))
    ELSE
    LET sorted_pos == SortByTs(ps)
        n == Len(sorted_pos)
        rs == [i \in 1..n |-> sorted_pos[i].pnl > 0]
        st == ComputeStreaks(rs)
        cumulative == Cumulative(sorted_pos)
        dd == DrawdownScan(cumulative)
        sizes == [i \in 1..n |-> sorted_pos[i].tb]
        after_loss == {i \in 2..n : sorted_pos[i - 1].pnl <= 0}
        after_win == {i \in 2..n : sorted_pos[i - 1].pnl > 0}
        SumAt(S) == Sum([i \in 1..n |-> IF i \in S THEN sizes[i] ELSE 0])
        size_after_loss_ratio ==
            IF after_loss # {} /\ Sum(sizes) > 0
            THEN Frac(SumAt(after_loss) * n, Cardinality(after_loss) * Sum(sizes)) ELSE Zero
        size_after_win_ratio ==
            IF after_win # {} /\ Sum(sizes) > 0
            THEN Frac(SumAt(after_win) * n, Cardinality(after_win) * Sum(sizes)) ELSE Zero
        mid == n \div 2
        first_half == SubSeq(rs, 1, mid)
        second_half == SubSeq(rs, mid + 1, n)
        first_half_winrate ==
            IF first_half = <<>> THEN Zero ELSE Frac(CountTrue(first_half), Len(first_half))
        second_half_winrate ==
            IF second_half = <<>> THEN Zero ELSE Frac(CountTrue(second_half), Len(second_half))
        \* second - first, scaled by 20 * den1 * den2, against 0.05
        diff20 == 20 * (second_half_winrate.num * first_half_winrate.den
                        - first_half_winrate.num * second_half_winrate.den)
        unit == first_half_winrate.den * second_half_winrate.den
        edge_trend == IF diff20 > unit THEN "improving"
                      ELSE IF diff20 < 0 - unit THEN "declining" ELSE "stable"
        max_drawdown_pct == IF dd.max_dd_peak > 0 THEN Frac(dd.max_dd, dd.max_dd_peak) ELSE Zero
        r2 == CurveR2(cumulative)
        signals ==
            (IF st.max_w >= 10 THEN <<"LONG_WIN_STREAKS">> ELSE <<>>)
            \o (IF st.max_l >= 10 THEN <<"LONG_LOSS_STREAKS">> ELSE <<>>)
            \o (IF FracAbove(r2, 9, 10) THEN <<"STEADY_GRINDER">>
                ELSE IF FracBelow(r2, 3, 10) /\ n >= 20 THEN <<"VOLATILE_RETURNS">> ELSE <<>>)
            \o (IF FracAbove(max_drawdown_pct, 1, 2) THEN <<"SEVERE_DRAWDOWN">> ELSE <<>>)
            \o (IF FracAbove(size_after_loss_ratio, 13, 10) THEN <<"MARTINGALE_TENDENCY">>
                ELSE IF FracBelow(size_after_loss_ratio, 7, 10) /\ size_after_loss_ratio.num > 0
                     THEN <<"RISK_REDUCER">> ELSE <<>>)
            \o (IF edge_trend = "improving" THEN <<"IMPROVING_EDGE">>
                ELSE IF edge_trend = "declining" THEN <<"DECLINING_EDGE">> ELSE <<>>)
    IN  [total_positions |-> Len(ps),
         max_win_streak |-> st.max_w, max_loss_streak |-> st.max_l,
         avg_win_streak |-> st.avg_w, avg_loss_streak |-> st.avg_l,
         current_streak |-> st.current_streak,
         max_drawdown |-> dd.max_dd, max_drawdown_pct |-> max_drawdown_pct,
         drawdown_duration_positions |->
            IF dd.max_dd > 0 THEN RecoveryCount(cumulative, dd.max_dd_end, dd.max_dd_peak)
            ELSE 0,
         recoveries_from_loss |-> RecoveriesFromLoss(rs),
         avg_recovery_length |-> Zero,
         size_after_loss_ratio |-> size_after_loss_ratio,
         size_after_win_ratio |-> size_after_win_ratio,
         first_half_winrate |-> first_half_winrate,
         second_half_winrate |-> second_half_winrate,
         edge_trend |-> edge_trend, pnl_curve_r2 |-> r2, signals |-> signals]


(***************************************************************************)
(* skills/flow_analyzer.py                                                 *)
(***************************************************************************)
\* the sum of field values over the positions at the indices in S
SumPnl(ps, S) == Sum([i \in 1..Len(ps) |-> IF i \in S THEN ps[i].pnl ELSE 0])
SumTb(ps, S) == Sum([i \in 1..Len(ps) |-> IF i \in S THEN ps[i].tb ELSE 0])

Abs(x) == IF x < 0 THEN 0 - x ELSE x

\* FlowAnalysis(total_positions=len(positions)): the dataclass defaults
FlowDefaults(n) ==
    [total_positions |-> n, total_volume_bought |-> 0, total_pnl |-> 0,
     win_count |-> 0, loss_count |-> 0, win_rate |-> Zero,
     avg_win |-> Zero, avg_loss |-> Zero, profit_factor |-> Zero, expectancy |-> Zero,
     multi_entry_markets |-> 0, avg_entries_per_market |-> Zero,
     months |-> {}, trend_direction |-> "",
     max_single_loss |-> 0, max_single_win |-> 0, risk_reward_ratio |-> Zero,
     signals |-> <<>>]

\* profit_factor = gross_profit / gross_loss if gross_loss > 0 else float('inf'),
\* with gross_loss = abs(sum of the losses' pnl) if losses else 1
FlowProfitFactor(ps) ==
    LET wins == {i \in 1..Len(ps) : ps[i].pnl > 0}
        losses == {i \in 1..Len(ps) : ps[i].pnl <= 0}
        gross_profit == IF wins # {} THEN SumPnl(ps, wins) ELSE 0
        gross_loss == IF losses # {} THEN Abs(SumPnl(ps, losses)) ELSE 1
    IN  IF gross_loss > 0 THEN Frac(gross_profit, gross_loss) ELSE Inf

\* the "%Y-%m" keys of monthly_pnl for timestamps of 1970; sorted() orders
\* them as listed
MonthNames ==
    <<"1970-01", "1970-02", "1970-03", "1970-04", "1970-05", "1970-06",
      "1970-07", "1970-08", "1970-09", "1970-10", "1970-11", "1970-12">>

\* datetime.fromtimestamp(ts, tz=utc).strftime("%Y-%m"), for timestamps of 1970
MonthOf(ts) ==
    LET days == <<0, 31, 59, 90, 120, 151, 181, 212, 243, 273, 304, 334>>
    IN  MonthNames[Max({m \in 1..12 : days[m] * 86400 <= ts})]

\* analyze_flow after its empty-list return
FlowBody(ps) ==
    LET n == Len(ps)
        all == 1..n
        wins == {i \in all : ps[i].pnl > 0}
        losses == {i \in all : ps[i].pnl <= 0}
        total_volume_bought == SumTb(ps, all)
        avg_win == IF wins # {} THEN Frac(SumPnl(ps, wins), Cardinality(wins)) ELSE Zero
        avg_loss == IF losses # {} THEN Frac(SumPnl(ps, losses), Cardinality(losses)) ELSE Zero
        max_single_win == IF wins # {} THEN Max({ps[i].pnl : i \in wins}) ELSE 0
        max_single_loss == IF losses # {} THEN Min({ps[i].pnl : i \in losses}) ELSE 0
        profit_factor == FlowProfitFactor(ps)
        win_rate == IF n > 0 THEN Frac(Cardinality(wins), n) ELSE Zero
        risk_reward_ratio ==
            IF avg_loss.num # 0
            THEN Frac(avg_win.num * avg_loss.den, avg_win.den * Abs(avg_loss.num)) ELSE Zero
        market_entries == {ps[i].cid : i \in all} \ {""}
        Entries(c) == Cardinality({i \in all : ps[i].cid = c})
        multi_entry_markets == Cardinality({c \in market_entries : Entries(c) > 1})
        months == {MonthOf(ps[i].ts) : i \in {j \in all : ps[j].ts > 0}}
        monthly_pnl == [m \in months |->
                          SumPnl(ps, {i \in all : ps[i].ts > 0 /\ MonthOf(ps[i].ts) = m})]
        sorted_months == SelectSeq(MonthNames, LAMBDA m : m \in months)
        count == Len(sorted_months)
        recent == SubSeq(sorted_months, count - 2, count)
        older == IF count >= 6 THEN SubSeq(sorted_months, 1, 3) ELSE <<sorted_months[1]>>
        sum_recent == Sum([k \in 1..Len(recent) |-> monthly_pnl[recent[k]]])
        sum_older == Sum([k \in 1..Len(older) |-> monthly_pnl[older[k]]])
        \* avg_recent > avg_older * 1.5 and avg_recent < avg_older * 0.5, with
        \* avg_recent = sum_recent / 3 and avg_older = sum_older / len(older)
        trend_direction ==
            IF count < 3 THEN "insufficient_data"
            ELSE IF 2 * Len(older) * sum_recent > 9 * sum_older THEN "improving"
            ELSE IF 2 * Len(older) * sum_recent < 3 * sum_older THEN "declining"
            ELSE "stable"
        signals ==
            (IF FracAbove(profit_factor, 2, 1) THEN <<"HIGH_PROFIT_FACTOR">>
             ELSE IF FracBelow(profit_factor, 8, 10) THEN <<"LOW_PROFIT_FACTOR">> ELSE <<>>)
            \o (IF FracAbove(win_rate, 65, 100) THEN <<"HIGH_WIN_RATE">>
                ELSE IF FracBelow(win_rate, 35, 100) THEN <<"LOW_WIN_RATE">> ELSE <<>>)
            \o (IF FracAbove(risk_reward_ratio, 3, 1) THEN <<"HIGH_RR">> ELSE <<>>)
            \o (IF /\ 10 * multi_entry_markets > 3 * Cardinality(market_entries)
                   /\ Cardinality(market_entries) > 5
                THEN <<"ACCUMULATOR">> ELSE <<>>)
            \o (IF max_single_loss # 0 /\ 10 * Abs(max_single_loss) > total_volume_bought
                THEN <<"LARGE_DRAWDOWN">> ELSE <<>>)
    IN  [total_positions |-> n,
         total_volume_bought |-> total_volume_bought,
         total_pnl |-> SumPnl(ps, all),
         win_count |-> Cardinality(wins), loss_count |-> Cardinality(losses),
         win_rate |-> win_rate,
         avg_win |-> avg_win, avg_loss |-> avg_loss,
         profit_factor |-> profit_factor,
         expectancy |-> IF n > 0 THEN Frac(SumPnl(ps, all), n) ELSE Zero,
         multi_entry_markets |-> multi_entry_markets,
         avg_entries_per_market |->
            IF market_entries # {} THEN Frac(n, Cardinality(market_entries)) ELSE Zero,
         months |-> months,
         trend_direction |-> trend_direction,
         max_single_loss |-> max_single_loss, max_single_win |-> max_single_win,
         risk_reward_ratio |-> risk_reward_ratio,
         signals |-> signals]

\* variant: analyze_flow without its empty-list return
AnalyzeFlowUnguarded(ps) == FlowBody(ps)

\* analyze_flow
AnalyzeFlow(ps) == IF ps = <<>> THEN FlowDefaults(0) ELSE FlowBody(ps)


(***************************************************************************)
(* Counter(keys).most_common() and sorted(items, key=-weight): the         *)
(* distinct keys by decreasing weight, equal weights in the order in which *)
(* the keys were first inserted (both sorts are stable).                   *)
(***************************************************************************)
FirstIndex(ks, k) == Min({i \in 1..Len(ks) : ks[i] = k})

OrderByDesc(ks, W) ==
    LET K == Range(ks)
        Before(a, b) == \/ W[a] > W[b]
                        \/ W[a] = W[b] /\ FirstIndex(ks, a) < FirstIndex(ks, b)
        Rank(k) == 1 + Cardinality({a \in K : Before(a, k)})
    IN  [r \in 1..Cardinality(K) |-> CHOOSE k \in K : Rank(k) = r]

CountOf(ks, k) == Cardinality({i \in 1..Len(ks) : ks[i] = k})

MostCommon(ks) ==
    LET order == OrderByDesc(ks, [k \in Range(ks) |-> CountOf(ks, k)])
    IN  [r \in 1..Len(order) |-> [key |-> order[r], count |-> CountOf(ks, order[r])]]

\* s[:k]
Prefix(s, k) == SubSeq(s, 1, IF k < Len(s) THEN k ELSE Len(s))

\* sorted(xs) of a list of numbers
RECURSIVE SortAsc(_)
SortAsc(xs) ==
    IF xs = <<>> THEN <<>>
    ELSE LET m == Min(Range(xs))
             i == FirstIndex(xs, m)
         IN  <<m>> \o SortAsc(SubSeq(xs, 1, i - 1) \o SubSeq(xs, i + 1, Len(xs)))

\* the elements of a list that satisfy a test, given as the set of their indices
RECURSIVE SelectAt(_, _)
SelectAt(s, S) ==
    IF s = <<>> THEN <<>>
    ELSE SelectAt(SubSeq(s, 1, Len(s) - 1), S)
         \o (IF Len(s) \in S THEN <<s[Len(s)]>> ELSE <<>>)

(***************************************************************************)
(* skills/timing_analyzer.py                                               *)
(***************************************************************************)
\* datetime.fromtimestamp(ts, tz=utc): the hour, the date (days since the
\* epoch) and the weekday (Monday = 0; 1970-01-01 was a Thursday)
HourOf(ts) == (ts % 86400) \div 3600
DateOf(ts) == ts \div 86400
WeekdayOf(ts) == (DateOf(ts) + 3) % 7

\* TimingAnalysis(total_positions=len(positions)): the dataclass defaults
TimingDefaults(n) ==
    [total_positions |-> n, hour_distribution |-> <<>>, peak_hours |-> <<>>,
     off_hours_pct |-> Zero, day_distribution |-> <<>>, weekend_pct |-> Zero,
     avg_days_between_trades |-> Zero, burst_trading_episodes |-> 0,
     active_days |-> 0, total_span_days |-> 0, daily_consistency |-> Zero,
     signals |-> <<>>]

\* analyze_timing
AnalyzeTiming(ps) ==
    LET timed == {i \in 1..Len(ps) : ps[i].ts > 0}
    IN
    IF ps = <<>> \/ timed = {} THEN TimingDefaults(Len(ps))
    ELSE
    LET timestamps == SortAsc([i \in 1..Len(SelectAt(ps, timed)) |-> SelectAt(ps, timed)[i].ts])
        n == Len(timestamps)
        all == 1..n
        hours == [i \in all |-> HourOf(timestamps[i])]
        most_hours == MostCommon(hours)
        \* dict(sorted(hours.items())): the distinct hours in increasing order
        by_hour == OrderByDesc(hours, [h \in Range(hours) |-> 0 - h])
        off_hours == Cardinality({i \in all : hours[i] < 8 \/ hours[i] >= 22})
        weekend == Cardinality({i \in all : WeekdayOf(timestamps[i]) >= 5})
        active_days == Cardinality({DateOf(timestamps[i]) : i \in all})
        span == (timestamps[n] - timestamps[1]) \div 86400
        total_span_days == IF n >= 2 THEN (IF span > 1 THEN span ELSE 1) ELSE 1
        daily_consistency == IF n >= 2 THEN Frac(active_days, total_span_days) ELSE Frac(1, 1)
        avg_days_between_trades ==
            IF n >= 2 THEN Frac(timestamps[n] - timestamps[1], 86400 * (n - 1)) ELSE Zero
        hour_buckets == {<<DateOf(timestamps[i]), hours[i]>> : i \in all}
        burst_trading_episodes ==
            Cardinality({b \in hour_buckets :
                Cardinality({i \in all : <<DateOf(timestamps[i]), hours[i]>> = b}) > 5})
        off_hours_pct == Frac(off_hours, n)
        weekend_pct == Frac(weekend, n)
        signals ==
            (IF FracAbove(daily_consistency, 8, 10) THEN <<"HIGHLY_CONSISTENT">>
             ELSE IF FracBelow(daily_consistency, 1, 10) THEN <<"SPORADIC">> ELSE <<>>)
            \o (IF FracAbove(off_hours_pct, 4, 10) THEN <<"OFF_HOURS_HEAVY">> ELSE <<>>)
            \o (IF burst_trading_episodes > 10 THEN <<"BURST_TRADER">> ELSE <<>>)
            \o (IF FracAbove(weekend_pct, 35, 100) THEN <<"WEEKEND_ACTIVE">>
                ELSE IF FracBelow(weekend_pct, 5, 100) /\ n > 50 THEN <<"WEEKDAY_ONLY">>
                ELSE <<>>)
            \o (IF FracBelow(avg_days_between_trades, 1, 10) /\ n > 100
                THEN <<"HIGH_FREQUENCY">> ELSE <<>>)
    IN  [total_positions |-> Len(ps),
         hour_distribution |->
            [r \in 1..Len(by_hour) |-> [key |-> by_hour[r], count |-> CountOf(hours, by_hour[r])]],
         peak_hours |-> [r \in 1..Len(Prefix(most_hours, 3)) |-> most_hours[r].key],
         off_hours_pct |-> off_hours_pct,
         day_distribution |-> MostCommon([i \in all |-> WeekdayOf(timestamps[i])]),
         weekend_pct |-> weekend_pct,
         avg_days_between_trades |-> avg_days_between_trades,
         burst_trading_episodes |-> burst_trading_episodes,
         active_days |-> active_days,
         total_span_days |-> total_span_days,
         daily_consistency |-> daily_consistency,
         signals |-> signals]

(***************************************************************************)
(* skills/sizing_analyzer.py.  Prices (ap) are in hundredths.  The         *)
(* standard deviation and the coefficient of variation are kept as their   *)
(* squares (variance, cv_squared), which are exact quotients.              *)
(***************************************************************************)
\* SizingAnalysis(total_positions=len(positions)): the dataclass defaults
SizingDefaults(n) ==
    [total_positions |-> n, total_volume |-> 0, avg_position_size |-> Zero,
     median_position_size |-> Zero, variance |-> Zero,
     min_position_size |-> 0, max_position_size |-> 0,
     micro_count |-> 0, small_count |-> 0, medium_count |-> 0, large_count |-> 0,
     whale_count |-> 0, cv_squared |-> Zero, size_concentration |-> Zero,
     avg_win_size |-> Zero, avg_loss_size |-> Zero, win_loss_size_ratio |-> Zero,
     avg_entry_price |-> Zero, low_odds_pct |-> Zero, mid_odds_pct |-> Zero,
     high_odds_pct |-> Zero, signals |-> <<>>]

\* statistics.median of a non-empty list
Median(xs) ==
    LET s == SortAsc(xs)
        n == Len(s)
    IN  IF n % 2 = 1 THEN Frac(s[(n + 1) \div 2], 1)
        ELSE Frac(s[n \div 2] + s[n \div 2 + 1], 2)

\* statistics.stdev(xs) squared: the sample variance, 0 for a single value
Variance(xs) ==
    LET n == Len(xs)
        sq == Sum([i \in 1..n |-> xs[i] * xs[i]])
    IN  IF n > 1 THEN Frac(n * sq - Sum(xs) * Sum(xs), n * (n - 1)) ELSE Zero

\* analyze_sizing
AnalyzeSizing(ps) ==
    LET sized == {i \in 1..Len(ps) : ps[i].tb > 0}
    IN
    IF ps = <<>> \/ sized = {} THEN SizingDefaults(Len(ps))
    ELSE
    LET sizes == [i \in 1..Len(SelectAt(ps, sized)) |-> SelectAt(ps, sized)[i].tb]
        n == Len(sizes)
        total_volume == Sum(sizes)
        variance == Variance(sizes)
        \* (std / mean)^2 = variance * n^2 / total_volume^2
        cv_squared == Frac(variance.num * n * n, variance.den * total_volume * total_volume)
        sorted_sizes == SortAsc(sizes)
        top_n == IF n \div 10 > 1 THEN n \div 10 ELSE 1
        size_concentration == Frac(Sum(SubSeq(sorted_sizes, n - top_n + 1, n)), total_volume)
        wins == {i \in sized : ps[i].pnl > 0}
        losses == {i \in sized : ps[i].pnl <= 0}
        avg_win_size == IF wins # {} THEN Frac(SumTb(ps, wins), Cardinality(wins)) ELSE Zero
        avg_loss_size ==
            IF losses # {} THEN Frac(SumTb(ps, losses), Cardinality(losses)) ELSE Zero
        win_loss_size_ratio ==
            IF avg_loss_size.num > 0
            THEN Frac(avg_win_size.num * avg_loss_size.den, avg_win_size.den * avg_loss_size.num)
            ELSE Zero
        priced == {i \in 1..Len(ps) : 0 < ps[i].ap /\ ps[i].ap <= 100}
        m == Cardinality(priced)
        Share(S) == IF m > 0 THEN Frac(Cardinality(S), m) ELSE Zero
        low_odds_pct == Share({i \in priced : ps[i].ap < 30})
        mid_odds_pct == Share({i \in priced : 30 <= ps[i].ap /\ ps[i].ap <= 70})
        high_odds_pct == Share({i \in priced : ps[i].ap > 70})
        whale_count == Cardinality({i \in 1..n : sizes[i] >= 100000})
        signals ==
            (IF FracBelow(cv_squared, 1, 4) THEN <<"CONSISTENT_SIZING">>
             ELSE IF FracAbove(cv_squared, 4, 1) THEN <<"HIGHLY_VARIABLE_SIZING">> ELSE <<>>)
            \o (IF whale_count > 0 /\ 10 * whale_count > n THEN <<"WHALE_SIZING">> ELSE <<>>)
            \o (IF FracAbove(size_concentration, 1, 2) THEN <<"CONCENTRATED">> ELSE <<>>)
            \o (IF FracAbove(win_loss_size_ratio, 3, 2) THEN <<"LARGER_ON_WINS">>
                ELSE IF FracBelow(win_loss_size_ratio, 7, 10) /\ win_loss_size_ratio.num > 0
                     THEN <<"LARGER_ON_LOSSES">> ELSE <<>>)
            \o (IF FracAbove(low_odds_pct, 1, 2) THEN <<"LOW_ODDS_BUYER">>
                ELSE IF FracAbove(high_odds_pct, 1, 2) THEN <<"HIGH_ODDS_BUYER">>
                ELSE IF FracAbove(mid_odds_pct, 6, 10) THEN <<"MID_ODDS_FOCUS">> ELSE <<>>)
            \o (IF total_volume > 100000 * n THEN <<"VERY_LARGE_AVG">> ELSE <<>>)
    IN  [total_positions |-> Len(ps),
         total_volume |-> total_volume,
         avg_position_size |-> Frac(total_volume, n),
         median_position_size |-> Median(sizes),
         variance |-> variance,
         min_position_size |-> Min(Range(sizes)),
         max_position_size |-> Max(Range(sizes)),
         micro_count |-> Cardinality({i \in 1..n : sizes[i] < 100}),
         small_count |-> Cardinality({i \in 1..n : 100 <= sizes[i] /\ sizes[i] < 1000}),
         medium_count |-> Cardinality({i \in 1..n : 1000 <= sizes[i] /\ sizes[i] < 10000}),
         large_count |-> Cardinality({i \in 1..n : 10000 <= sizes[i] /\ sizes[i] < 100000}),
         whale_count |-> whale_count,
         cv_squared |-> cv_squared,
         size_concentration |-> size_concentration,
         avg_win_size |-> avg_win_size, avg_loss_size |-> avg_loss_size,
         win_loss_size_ratio |-> win_loss_size_ratio,
         avg_entry_price |-> IF m > 0 THEN Frac(Sum([i \in 1..Len(ps) |->
                                  IF i \in priced THEN ps[i].ap ELSE 0]), m) ELSE Zero,
         low_odds_pct |-> low_odds_pct, mid_odds_pct |-> mid_odds_pct,
         high_odds_pct |-> high_odds_pct,
         signals |-> signals]

(***************************************************************************)
(* skills/market_analyzer.py.  The regular expressions of CATEGORY_RULES   *)
(* are kept as their outcome on the titles used here: Matches[t] is the    *)
(* set of categories one of whose patterns is found in t.lower().          *)
(***************************************************************************)
CategoryOrder ==
    <<"sports_betting", "politics", "crypto", "economics", "entertainment",
      "science_tech", "weather">>

Titles ==
    {"", "nba finals", "Trump vs Biden", "bitcoin election",
     "Will Bitcoin hit $100K by March?", "Will Bitcoin hit $150K by March?",
     "will it happen", "fed rate cut in 2025", "oscars best picture", "spacex launch",
     "hurricane landfall", "super bowl halftime show"}

Matches ==
    [t \in Titles |->
        CASE t = "nba finals" -> {"sports_betting"}
          [] t = "Trump vs Biden" -> {"sports_betting", "politics"}
          [] t = "bitcoin election" -> {"politics", "crypto"}
          [] t = "Will Bitcoin hit $100K by March?" -> {"crypto"}
          [] t = "Will Bitcoin hit $150K by March?" -> {"crypto"}
          [] t = "fed rate cut in 2025" -> {"economics"}
          [] t = "oscars best picture" -> {"entertainment"}
          [] t = "spacex launch" -> {"science_tech"}
          [] t = "hurricane landfall" -> {"weather"}
          [] t = "super bowl halftime show" -> {"sports_betting", "entertainment"}
          [] OTHER -> {}]

\* variant: the last category, in rule order, with a matching pattern
_categorize_market_last(title) ==
    LET hits == {i \in 1..Len(CategoryOrder) : CategoryOrder[i] \in Matches[title]}
    IN  IF hits = {} THEN "other" ELSE CategoryOrder[Max(hits)]

\* _categorize_market: the first category, in rule order, with a matching pattern
_categorize_market(title) ==
    LET hits == {i \in 1..Len(CategoryOrder) : CategoryOrder[i] \in Matches[title]}
    IN  IF hits = {} THEN "other" ELSE CategoryOrder[Min(hits)]

\* str.lower() on the outcome names used here
Lower(o) ==
    CASE o \in {"Yes", "YES"} -> "yes"
      [] o \in {"No", "NO"} -> "no"
      [] OTHER -> o

\* MarketAnalysis(total_positions=len(positions)): the dataclass defaults
MarketDefaults(n) ==
    [total_positions |-> n, unique_markets |-> 0, unique_titles |-> 0,
     category_counts |-> <<>>, category_pnl |-> <<>>, category_volume |-> <<>>,
     dominant_category |-> "", category_concentration |-> Zero,
     herfindahl_index |-> Zero, markets_per_category |-> Zero, top_markets |-> <<>>,
     yes_pct |-> Zero, no_pct |-> Zero, signals |-> <<>>]

\* the distinct values of a list in the order of their first occurrence
\* (the key order of a dict filled by a loop over the list)
KeysOf(ks) == OrderByDesc(ks, [k \in Range(ks) |-> 0])

\* analyze_markets
AnalyzeMarkets(ps) ==
    IF ps = <<>> THEN MarketDefaults(0)
    ELSE
    LET n == Len(ps)
        all == 1..n
        cats == [i \in all |-> _categorize_market(ps[i].t)]
        category_counts == MostCommon(cats)
        cat_keys == KeysOf(cats)
        category_concentration == Frac(category_counts[1].count, n)
        cid_list == [i \in all |-> ps[i].cid]
        market_volumes == [c \in Range(cid_list) |-> SumTb(ps, {i \in all : ps[i].cid = c})]
        volume_sum == SumTb(ps, all)
        total_vol == IF volume_sum # 0 THEN volume_sum ELSE 1
        herfindahl_index ==
            Frac(Sum([i \in all |-> IF FirstIndex(cid_list, ps[i].cid) = i
                                    THEN market_volumes[ps[i].cid] * market_volumes[ps[i].cid]
                                    ELSE 0]),
                 total_vol * total_vol)
        sorted_markets == OrderByDesc(cid_list, market_volumes)
        LastTitle(c) == ps[Max({i \in all : ps[i].cid = c})].t
        outcomes == [i \in all |-> Lower(ps[i].o)]
        yes_count == CountOf(outcomes, "yes")
        no_count == CountOf(outcomes, "no")
        total_outcomes == IF yes_count + no_count # 0 THEN yes_count + no_count ELSE 1
        yes_pct == Frac(yes_count, total_outcomes)
        no_pct == Frac(no_count, total_outcomes)
        unique_markets == Cardinality(Range(cid_list) \ {""})
        signals ==
            (IF FracAbove(category_concentration, 8, 10) THEN <<"SPECIALIST">>
             ELSE IF Len(category_counts) >= 4 /\ FracBelow(category_concentration, 1, 2)
                  THEN <<"DIVERSIFIED">> ELSE <<>>)
            \o (IF FracAbove(herfindahl_index, 1, 10) THEN <<"MARKET_CONCENTRATED">>
                ELSE IF FracBelow(herfindahl_index, 1, 100) THEN <<"HIGHLY_DIVERSIFIED">>
                ELSE <<>>)
            \o (IF FracAbove(no_pct, 7, 10) THEN <<"NO_BIAS">>
                ELSE IF FracAbove(yes_pct, 7, 10) THEN <<"YES_BIAS">> ELSE <<>>)
            \o (IF unique_markets > 0 /\ n > 3 * unique_markets
                THEN <<"REPEAT_MARKETS">> ELSE <<>>)
    IN  [total_positions |-> n,
         unique_markets |-> unique_markets,
         unique_titles |-> Cardinality({ps[i].t : i \in all} \ {""}),
         category_counts |-> category_counts,
         category_pnl |->
            [r \in 1..Len(cat_keys) |->
                [key |-> cat_keys[r],
                 value |-> SumPnl(ps, {i \in all : cats[i] = cat_keys[r]})]],
         category_volume |->
            [r \in 1..Len(cat_keys) |->
                [key |-> cat_keys[r],
                 value |-> SumTb(ps, {i \in all : cats[i] = cat_keys[r]})]],
         dominant_category |-> category_counts[1].key,
         category_concentration |-> category_concentration,
         herfindahl_index |-> herfindahl_index,
         markets_per_category |-> Zero,
         top_markets |->
            [r \in 1..Len(Prefix(sorted_markets, 10)) |->
                [title |-> LastTitle(sorted_markets[r]),
                 volume |-> market_volumes[sorted_markets[r]],
                 pnl |-> SumPnl(ps, {i \in all : ps[i].cid = sorted_markets[r]})]],
         yes_pct |-> yes_pct, no_pct |-> no_pct,
         signals |-> signals]

(***************************************************************************)
(* skills/correlation_analyzer.py.  _normalize_title and _simple_category  *)
(* are kept as their outcome on the titles used here.                      *)
(***************************************************************************)
\* _normalize_title: lower case, "$<digits>k" -> "$X", 4 digits -> "YYYY"
_normalize_title(title) ==
    CASE title = "Trump vs Biden" -> "trump vs biden"
      [] title = "Will Bitcoin hit $100K by March?" -> "will bitcoin hit $X by march?"
      [] title = "Will Bitcoin hit $150K by March?" -> "will bitcoin hit $X by march?"
      [] title = "fed rate cut in 2025" -> "fed rate cut in YYYY"
      [] OTHER -> title

\* _simple_category
_simple_category(title) ==
    CASE title \in {"nba finals", "Trump vs Biden"} -> "sports"
      [] title = "bitcoin election" -> "politics"
      [] title \in {"Will Bitcoin hit $100K by March?", "Will Bitcoin hit $150K by March?"}
            -> "crypto"
      [] title = "fed rate cut in 2025" -> "economics"
      [] OTHER -> "other"

\* cat.upper() in the DIRECTIONAL_ signal
Upper(cat) ==
    CASE cat = "sports" -> "SPORTS"
      [] cat = "politics" -> "POLITICS"
      [] cat = "crypto" -> "CRYPTO"
      [] cat = "economics" -> "ECONOMICS"
      [] OTHER -> "OTHER"

\* CorrelationAnalysis(total_positions=len(positions)): the dataclass defaults
CorrelationDefaults(n) ==
    [total_positions |-> n, unique_markets |-> 0, same_market_both_sides |-> 0,
     hedge_ratio |-> Zero, temporal_clusters |-> 0, avg_cluster_size |-> Zero,
     max_cluster_size |-> 0, simultaneous_open_markets |-> 0, avg_open_markets |-> Zero,
     portfolio_turnover |-> Zero, related_market_groups |-> 0, positions_in_related |-> 0,
     related_pct |-> Zero, opposing_pairs |-> 0, category_direction |-> <<>>,
     signals |-> <<>>]

\* list.sort(key=...) / sorted(..., key=...): a stable sort of s by the
\* integer keys given in the parallel list keys
StableSortBy(s, keys) ==
    LET Rank(j) == 1 + Cardinality({i \in 1..Len(s) :
                        keys[i] < keys[j] \/ (keys[i] = keys[j] /\ i < j)})
    IN  [r \in 1..Len(s) |-> s[CHOOSE j \in 1..Len(s) : Rank(j) = r]]

\* the sizes of the temporal clusters: runs of the sorted positions within
\* 3600 s of the run's first position, of 3 or more positions in 2 or more markets
ClusterSizes(sorted_positions) ==
    LET Counts(cluster) ==
            IF Len(cluster) >= 3 /\ Cardinality({cluster[i].cid : i \in 1..Len(cluster)}) >= 2
            THEN <<Len(cluster)>> ELSE <<>>
        RECURSIVE Scan(_, _, _)
        Scan(i, current_cluster, clusters) ==
            IF i > Len(sorted_positions) THEN clusters \o Counts(current_cluster)
            ELSE IF current_cluster = <<>>
                 THEN Scan(i + 1, <<sorted_positions[i]>>, clusters)
            ELSE IF sorted_positions[i].ts - current_cluster[1].ts <= 3600
                 THEN Scan(i + 1, Append(current_cluster, sorted_positions[i]), clusters)
            ELSE Scan(i + 1, <<sorted_positions[i]>>, clusters \o Counts(current_cluster))
    IN  Scan(1, <<>>, <<>>)

\* the open/close events of the timed positions, sorted by (time, delta):
\* every position is taken to be open for 7 days
OpenEvents(sorted_positions) ==
    LET timed == SelectAt(sorted_positions,
                          {i \in 1..Len(sorted_positions) : sorted_positions[i].ts > 0})
        events == [k \in 1..(2 * Len(timed)) |->
                      IF k % 2 = 1
                      THEN [time |-> timed[(k + 1) \div 2].ts, delta |-> 1,
                            cid |-> timed[(k + 1) \div 2].cid]
                      ELSE [time |-> timed[k \div 2].ts + 7 * 86400, delta |-> -1,
                            cid |-> timed[k \div 2].cid]]
    IN  StableSortBy(events, [k \in 1..Len(events) |->
                                2 * events[k].time + (IF events[k].delta > 0 THEN 1 ELSE 0)])

\* the number of open markets after each event
OpenCounts(events) ==
    LET RECURSIVE Scan(_, _, _)
        Scan(i, current_open, open_counts) ==
            IF i > Len(events) THEN open_counts
            ELSE LET now == IF events[i].delta > 0 THEN current_open \cup {events[i].cid}
                            ELSE current_open \ {events[i].cid}
                 IN  Scan(i + 1, now, Append(open_counts, Cardinality(now)))
    IN  Scan(1, {}, <<>>)

\* analyze_correlations
AnalyzeCorrelations(ps) ==
    IF ps = <<>> THEN CorrelationDefaults(0)
    ELSE
    LET n == Len(ps)
        all == 1..n
        by_market == {ps[i].cid : i \in all}
        Outcomes(S) == {Lower(ps[i].o) : i \in S}
        both_side_count ==
            Cardinality({c \in by_market :
                            {"yes", "no"} \subseteq Outcomes({i \in all : ps[i].cid = c})})
        hedge_ratio == Frac(both_side_count, Cardinality(by_market))
        sorted_positions == SortByTs(ps)
        sizes == ClusterSizes(sorted_positions)
        roots == [i \in all |-> _normalize_title(ps[i].t)]
        Group(root) == {i \in all : roots[i] = root}
        related_groups ==
            {root \in Range(roots) : Cardinality({ps[i].cid : i \in Group(root)}) >= 2}
        positions_in_related == Cardinality({i \in all : roots[i] \in related_groups})
        related_pct == Frac(positions_in_related, n)
        \* unordered pairs of markets of one group with YES in one and NO in the other
        Opposing(root) ==
            LET cids == {ps[i].cid : i \in Group(root)}
                Of(c) == Outcomes({i \in Group(root) : ps[i].cid = c})
            IN  {pair \in SUBSET cids :
                    /\ Cardinality(pair) = 2
                    /\ \E a \in pair : \E b \in pair \ {a} : "yes" \in Of(a) /\ "no" \in Of(b)}
        opposing_pairs ==
            Sum([i \in all |-> IF roots[i] \in related_groups /\ FirstIndex(roots, roots[i]) = i
                               THEN Cardinality(Opposing(roots[i])) ELSE 0])
        open_counts == OpenCounts(OpenEvents(sorted_positions))
        simultaneous_open_markets ==
            IF open_counts = <<>> THEN 0 ELSE Max(Range(open_counts) \cup {0})
        sided == {i \in all : Lower(ps[i].o) \in {"yes", "no"}}
        simple == [i \in all |-> _simple_category(ps[i].t)]
        dir_keys == KeysOf(SelectAt(simple, sided))
        Yes(cat) == Cardinality({i \in sided : simple[i] = cat /\ Lower(ps[i].o) = "yes"})
        No(cat) == Cardinality({i \in sided : simple[i] = cat /\ Lower(ps[i].o) = "no"})
        Directional(cat) ==
            LET most == IF Yes(cat) > No(cat) THEN Yes(cat) ELSE No(cat)
            IN  IF Yes(cat) + No(cat) >= 20 /\ 100 * most > 85 * (Yes(cat) + No(cat))
                THEN <<"DIRECTIONAL_" \o Upper(cat)>> ELSE <<>>
        RECURSIVE DirectionalSignals(_)
        DirectionalSignals(r) ==
            IF r > Len(dir_keys) THEN <<>>
            ELSE Directional(dir_keys[r]) \o DirectionalSignals(r + 1)
        signals ==
            (IF FracAbove(hedge_ratio, 15, 100) THEN <<"HEDGER">>
             ELSE IF FracAbove(hedge_ratio, 5, 100) THEN <<"PARTIAL_HEDGE">> ELSE <<>>)
            \o (IF Len(sizes) > 10 THEN <<"BATCH_TRADER">> ELSE <<>>)
            \o (IF FracAbove(related_pct, 3, 10) THEN <<"RELATED_MARKET_FOCUS">> ELSE <<>>)
            \o (IF opposing_pairs > 5 THEN <<"CROSS_MARKET_HEDGE">>
                ELSE IF opposing_pairs > 0 THEN <<"SOME_HEDGING">> ELSE <<>>)
            \o (IF simultaneous_open_markets > 50 THEN <<"PORTFOLIO_BUILDER">> ELSE <<>>)
            \o DirectionalSignals(1)
    IN  [total_positions |-> n,
         unique_markets |-> Cardinality(by_market),
         same_market_both_sides |-> both_side_count,
         hedge_ratio |-> hedge_ratio,
         temporal_clusters |-> Len(sizes),
         avg_cluster_size |-> IF sizes = <<>> THEN Zero ELSE Frac(Sum(sizes), Len(sizes)),
         max_cluster_size |-> IF sizes = <<>> THEN 0 ELSE Max(Range(sizes)),
         simultaneous_open_markets |-> simultaneous_open_markets,
         avg_open_markets |->
            IF open_counts = <<>> THEN Zero ELSE Frac(Sum(open_counts), Len(open_counts)),
         portfolio_turnover |-> Zero,
         related_market_groups |-> Cardinality(related_groups),
         positions_in_related |-> positions_in_related,
         related_pct |-> related_pct,
         opposing_pairs |-> opposing_pairs,
         category_direction |->
            [r \in 1..Len(dir_keys) |->
                [key |-> dir_keys[r], yes |-> Yes(dir_keys[r]), no |-> No(dir_keys[r])]],
         signals |-> signals]

(***************************************************************************)
(* The six skills applied to one position list, in the order in which      *)
(* skilled_analyze calls them.  analysis holds each skill's result once it *)
(* has run.                                                                *)
(***************************************************************************)
MaxPositions == 3

Position(tb, ap, pnl, ts, t, cid, o) ==
    [tb |-> tb, ap |-> ap, pnl |-> pnl, ts |-> ts, t |-> t, cid |-> cid, o |-> o]

\* well-formed positions: size >= 0, price in [0, 1]; 82800 is Thursday 23:00,
\* 90000 is Friday 01:00; the third one is a Position with its defaults
PositionSet ==
    {Position(5, 20, 10, 82800, "Trump vs Biden", "m1", "Yes"),
     Position(15, 80, -30, 90000, "bitcoin election", "m1", "No"),
     Position(0, 0, 0, 0, "", "", ""),
     Position(5, 50, 0, 82800, "Will Bitcoin hit $100K by March?", "m2", "yes"),
     Position(5, 100, 10, 82800, "Will Bitcoin hit $150K by March?", "m3", "no"),
     Position(15, 50, -30, 82800, "nba finals", "m2", "")}

NoAnalysis ==
    [timing |-> None, sizing |-> None, markets |-> None, flow |-> None,
     patterns |-> None, correlations |-> None]

\* the variables of the classification pipeline, which the skills never touch
PipelineIdle ==
    /\ data = None
    /\ sizing = None
    /\ flow = None
    /\ markets = None
    /\ num_positions = 0
    /\ profile = None
    /\ llm = None
    /\ once = None
    /\ fired = <<>>
    /\ answer = None
    /\ locals = {}
    /\ errors = <<>>
    /\ thesis = None

PipelineUnchanged ==
    UNCHANGED <<data, sizing, flow, markets, num_positions, profile, llm, once,
                fired, answer, locals, errors, thesis>>

InitAnalyze ==
    /\ positions \in SeqsUpTo(PositionSet, MaxPositions)
    /\ results = <<>>
    /\ analysis = NoAnalysis
    /\ files = None
    /\ cycles = <<>>
    /\ pc = "timing"
    /\ PipelineIdle

SkillTiming ==
    /\ pc = "timing"
    /\ analysis' = [analysis EXCEPT !.timing = Some(AnalyzeTiming(positions))]
    /\ pc' = "sizing"
    /\ UNCHANGED <<positions, results, files, cycles>>
    /\ PipelineUnchanged

SkillSizing ==
    /\ pc = "sizing"
    /\ analysis' = [analysis EXCEPT !.sizing = Some(AnalyzeSizing(positions))]
    /\ pc' = "markets"
    /\ UNCHANGED <<positions, results, files, cycles>>
    /\ PipelineUnchanged

SkillMarkets ==
    /\ pc = "markets"
    /\ analysis' = [analysis EXCEPT !.markets = Some(AnalyzeMarkets(positions))]
    /\ pc' = "flow"
    /\ UNCHANGED <<positions, results, files, cycles>>
    /\ PipelineUnchanged

SkillFlow ==
    /\ pc = "flow"
    /\ analysis' = [analysis EXCEPT !.flow = Some(AnalyzeFlow(positions))]
    /\ pc' = "patterns"
    /\ UNCHANGED <<positions, results, files, cycles>>
    /\ PipelineUnchanged

SkillPatterns ==
    /\ pc = "patterns"
    /\ analysis' = [analysis EXCEPT !.patterns = Some(AnalyzePatterns(positions))]
    /\ pc' = "correlations"
    /\ UNCHANGED <<positions, results, files, cycles>>
    /\ PipelineUnchanged

SkillCorrelations ==
    /\ pc = "correlations"
    /\ analysis' = [analysis EXCEPT !.correlations = Some(AnalyzeCorrelations(positions))]
    /\ pc' = "analyzed"
    /\ UNCHANGED <<positions, results, files, cycles>>
    /\ PipelineUnchanged

NextAnalyze ==
    \/ SkillTiming \/ SkillSizing \/ SkillMarkets
    \/ SkillFlow \/ SkillPatterns \/ SkillCorrelations

SpecAnalyze == InitAnalyze /\ [][NextAnalyze]_vars

(***************************************************************************)
(* The skills applied to lists of identical break-even positions, long     *)
(* enough for the R^2 fit (10 positions) and its VOLATILE_RETURNS test (20 *)
(* positions) to be reached.                                               *)
(***************************************************************************)
MaxFlat == 22

InitFlat ==
    /\ \E n \in 2..MaxFlat, ts \in {0, 5, 82800}, tb \in {0, 50} :
          positions = [i \in 1..n |-> Position(tb, 50, 0, ts, "will it happen", "m1", "Yes")]
    /\ results = <<>>
    /\ analysis = NoAnalysis
    /\ files = None
    /\ cycles = <<>>
    /\ pc = "timing"
    /\ PipelineIdle

SpecFlat == InitFlat /\ [][NextAnalyze]_vars

(***************************************************************************)
(* _compute_streaks applied to a win/loss sequence.                        *)
(***************************************************************************)
MaxResults == 7

InitStreaks ==
    /\ results \in SeqsUpTo(BOOLEAN, MaxResults)
    /\ positions = <<>>
    /\ analysis = None
    /\ files = None
    /\ cycles = <<>>
    /\ pc = "results"
    /\ PipelineIdle

Streaks ==
    /\ pc = "results"
    /\ analysis' = Some(ComputeStreaks(results))
    /\ pc' = "streaks"
    /\ UNCHANGED <<positions, results, files, cycles>>
    /\ PipelineUnchanged

SpecStreaks == InitStreaks /\ [][Streaks]_vars

(***************************************************************************)
(* analyze_correlations applied to position lists whose timestamps lie     *)
(* minutes apart (the 1-hour cluster window) and a week apart (the 7-day   *)
(* holding period), in two markets.                                        *)
(***************************************************************************)
MaxWindow == 4

WindowPositionSet ==
    {Position(5, 50, 0, ts, "will it happen", cid, "yes") :
        ts \in {1000, 3000, 5000, 6000, 606000}, cid \in {"m1", "m2"}}

InitWindows ==
    /\ positions \in SeqsUpTo(WindowPositionSet, MaxWindow)
    /\ results = <<>>
    /\ analysis = NoAnalysis
    /\ files = None
    /\ cycles = <<>>
    /\ pc = "correlations"
    /\ PipelineIdle

SpecWindows == InitWindows /\ [][SkillCorrelations]_vars

(***************************************************************************)
(* analyze_flow applied to wallets that trade in up to MaxMonths calendar  *)
(* months: either one position in each of the first n months of 1970 (on   *)
(* the second day of the month) or n positions all in January.             *)
(***************************************************************************)
MaxMonths == 6

InitTrend ==
    /\ \E n \in 0..MaxMonths, spread \in BOOLEAN : \E pnls \in [1..n -> {-10, 10, 40}] :
          positions =
            [i \in 1..n |->
                Position(15, 50, pnls[i],
                         (IF spread
                          THEN <<0, 31, 59, 90, 120, 151, 181, 212, 243, 273, 304, 334>>[i]
                          ELSE 0) * 86400 + 86400,
                         "will it happen", "m1", "yes")]
    /\ results = <<>>
    /\ analysis = NoAnalysis
    /\ files = None
    /\ cycles = <<>>
    /\ pc = "flow"
    /\ PipelineIdle

SpecTrend == InitTrend /\ [][SkillFlow]_vars

(***************************************************************************)
(* agent/improver/agent.py and the training loop of orchestrator.py.  A    *)
(* path is the sequence of its components; files maps the location of      *)
(* every file under src/ to its content.  Contents are numbers: 0 for the  *)
(* repository's content, k for what the k-th improvement cycle writes; the *)
(* generated skills/__init__.py is the set of skills it imports and the    *)
(* improvement log is the number of its lines.                             *)
(***************************************************************************)
MaxCycles == 2    \* rounds of the training loop
MaxChanges == 2   \* longest "changes" list an improver answer carries

\* full_path = Path(__file__).parent.parent.parent / target: the file the
\* operating system opens, ".." stepping out of the directory before it
RECURSIVE Resolve(_)
Resolve(target) ==
    IF target = <<>> THEN <<>>
    ELSE LET head == Resolve(SubSeq(target, 1, Len(target) - 1))
             name == target[Len(target)]
         IN  IF name = ".." THEN SubSeq(head, 1, Len(head) - 1)
             ELSE Append(head, name)

\* any(str(target).startswith(p) for p in ["skills/", "agent/executor/prompts"]):
\* str(Path(...)) keeps ".." components; the third component starts with
\* "prompts" for the file names prompts.py and prompts_extra.py of the model
Allowed(target) ==
    \/ Len(target) >= 2 /\ target[1] = "skills"
    \/ /\ Len(target) >= 3 /\ target[1] = "agent" /\ target[2] = "executor"
       /\ target[3] \in {"prompts.py", "prompts_extra.py"}

\* full_path.with_suffix(full_path.suffix + ".bak")
Backup(location) ==
    Append(SubSeq(location, 1, Len(location) - 1), location[Len(location)] \o ".bak")

\* the files glob("*.bak") finds in a directory, and bak.with_suffix("")
BackupsIn(fs, dir) ==
    {location \in DOMAIN fs : Backup(location) \in DOMAIN fs
                              /\ SubSeq(location, 1, Len(location) - 1) = dir}

Write(fs, location, content) ==
    [l \in DOMAIN fs \cup {location} |-> IF l = location THEN content ELSE fs[l]]

Unlink(fs, location) == [l \in DOMAIN fs \ {location} |-> fs[l]]

\* _regenerate_skills_init: one import per file SKILLS_DIR.glob("*_analyzer.py")
\* finds, over the file names of the model
RegenerateSkillsInit(fs) ==
    Write(fs, <<"skills", "__init__.py">>,
          {name \in {"flow_analyzer.py", "timing_analyzer.py", "new_analyzer.py"} :
              <<"skills", name>> \in DOMAIN fs})

\* the loop of run_improvement_cycle over result["changes"]: the unauthorized
\* ones are skipped, an existing file is copied to its .bak, then written
RECURSIVE ApplyChanges(_, _, _)
ApplyChanges(fs, changes, content) ==
    IF changes = <<>> THEN [files |-> fs, changes_applied |-> <<>>]
    ELSE LET change == changes[1]
             full_path == Resolve(change.file)
             backed == IF full_path \in DOMAIN fs
                       THEN Write(fs, Backup(full_path), fs[full_path]) ELSE fs
             rest == ApplyChanges(IF Allowed(change.file)
                                  THEN Write(backed, full_path, content) ELSE fs,
                                  Tail(changes), content)
         IN  IF Allowed(change.file)
             THEN [rest EXCEPT !.changes_applied = <<change>> \o @]
             ELSE rest

improvement_log == <<"data", "performance", "improvement_log.jsonl">>

\* the paths the improver's answer may name
ProposedFiles ==
    {<<"skills", "flow_analyzer.py">>, <<"skills", "timing_analyzer.py">>,
     <<"skills", "new_analyzer.py">>, <<"skills", "..", "config.py">>,
     <<"config.py">>, <<"agent", "executor", "prompts.py">>,
     <<"agent", "executor", "prompts_extra.py">>}

InitImprove ==
    /\ files = [l \in {<<"skills", "__init__.py">>, <<"skills", "flow_analyzer.py">>,
                       <<"skills", "timing_analyzer.py">>, <<"config.py">>,
                       <<"agent", "executor", "prompts.py">>, improvement_log} |-> 0]
    /\ cycles = <<>>
    /\ pc = "improve"
    /\ positions = <<>>
    /\ results = <<>>
    /\ analysis = None
    /\ PipelineIdle

\* run_improvement_cycle, as cmd_train calls it at the start of a round
RunImprovementCycle ==
    /\ pc \in {"improve", "rolled_back"}
    /\ Len(cycles) < MaxCycles
    /\ \E changes \in SeqsUpTo([type : {"create_skill", "update_skill"},
                                 file : ProposedFiles], MaxChanges) :
          LET r == ApplyChanges(files, changes, Len(cycles) + 1)
              created == \E i \in 1..Len(r.changes_applied) :
                            r.changes_applied[i].type = "create_skill"
              regenerated == IF created THEN RegenerateSkillsInit(r.files) ELSE r.files
          IN  /\ files' = Write(regenerated, improvement_log, files[improvement_log] + 1)
              /\ cycles' = Append(cycles, [before |-> files, proposed |-> changes,
                                           changes_applied |-> r.changes_applied])
    /\ pc' = "reeval"
    /\ UNCHANGED <<positions, results, analysis>>
    /\ PipelineUnchanged

\* cmd_train: the re-evaluation shows an improvement or a neutral change
KeepChanges ==
    /\ pc = "reeval"
    /\ pc' = "improve"
    /\ UNCHANGED <<files, cycles>>
    /\ UNCHANGED <<positions, results, analysis>>
    /\ PipelineUnchanged

\* cmd_train: the re-evaluation shows a degradation; rollback_changes
RollbackChanges ==
    /\ pc = "reeval"
    /\ LET RECURSIVE Restore(_, _)
           Restore(fs, originals) ==
               IF originals = {} THEN fs
               ELSE LET original == CHOOSE l \in originals : TRUE
                    IN  Restore(Unlink(Write(fs, original, fs[Backup(original)]),
                                       Backup(original)),
                                originals \ {original})
           originals == BackupsIn(files, <<"skills">>)
                        \cup BackupsIn(files, <<"agent", "executor">>)
               restored == Restore(files, originals)
       IN  files' = IF originals # {} THEN RegenerateSkillsInit(restored) ELSE restored
    /\ pc' = "rolled_back"
    /\ UNCHANGED cycles
    /\ UNCHANGED <<positions, results, analysis>>
    /\ PipelineUnchanged

NextImprove == RunImprovementCycle \/ KeepChanges \/ RollbackChanges

SpecImprove == InitImprove /\ [][NextImprove]_vars








(***************************************************************************)
(* Vocabulary of the properties, read off the state alone.                 *)
(***************************************************************************)
Candidate == llm.primary_strategy
Final == data.primary_strategy
Secondary == data.secondary_strategies
Occurrences(x, seq) == Cardinality({i \in 1..Len(seq) : seq[i] = x})
\* the most frequent category and its share of ALL positions, in percent
TopCategory == markets[1].cat
TopShareAbove(p) == markets[1].count * 100 > p * num_positions
\* the same share taken over the five most frequent categories only
TopFive == {i \in 1..Len(markets) : i <= 5}
TopFiveTotal == SumCounts(SubSeq(markets, 1, Cardinality(TopFive)))
TopShareOfFiveAbove(p) == markets[1].count * 100 > p * TopFiveTotal
\* the inputs as the engine reads them: a measured 0 counts as the default
EffectiveWinRate == IF flow.win_rate = 0 THEN 5000 ELSE flow.win_rate
EffectiveProfitFactor == IF flow.profit_factor = 0 THEN 100 ELSE flow.profit_factor
SharpeValue == IF profile = None THEN None ELSE profile[1].sharpe_score

(***************************************************************************)
(* C1 (as claimed): override idempotence.  Applying the engine to its own  *)
(* output, with the same analyzer results, yields the same final label as  *)
(* the first pass.                                                         *)
(***************************************************************************)
C1_Idempotent == pc = "twice" => Final = once.primary_strategy

(***************************************************************************)
(* C2 (as claimed): for any candidate, market_maker included, with more    *)
(* than 30000 positions, avg size < $150K, |win rate - 50%| < 2% and       *)
(* profit factor < 1.10 the final label is scalper if crypto is the        *)
(* dominant category with > 60% share, market_maker otherwise.             *)
(***************************************************************************)
C2_NearFiftyOverride ==
    (/\ pc = "once"
     /\ num_positions > 30000
     /\ sizing.avg_position_size < 150000
     /\ 4800 < flow.win_rate /\ flow.win_rate < 5200
     /\ flow.profit_factor < 110)
    => Final = IF TopCategory = "crypto" /\ TopShareAbove(60)
               THEN "scalper" ELSE "market_maker"

(***************************************************************************)
(* C3 (as claimed): for any candidate other than whale, avg size > $100K,  *)
(* fewer than 5000 positions and sports dominant with > 40% share give the *)
(* final label whale, whatever the win rate and profit factor.             *)
(***************************************************************************)
C3_SportsWhale ==
    (/\ pc = "once"
     /\ Candidate # "whale"
     /\ sizing.avg_position_size > 100000
     /\ num_positions < 5000
     /\ TopCategory = "sports_betting" /\ TopShareAbove(40))
    => Final = "whale"

(***************************************************************************)
(* C4 (as claimed): candidate whale, politics among the top categories,    *)
(* sports not dominant, and win rate > 75% or profit factor > 3.0 give the *)
(* final label info_edge, for every position count and CV.                 *)
(***************************************************************************)
C4_InfoEdgeRescue ==
    (/\ pc = "once"
     /\ Candidate = "whale"
     /\ \E i \in TopFive : markets[i].cat = "politics"
     /\ ~(TopCategory = "sports_betting" /\ TopShareAbove(40))
     /\ (flow.win_rate > 7500 \/ flow.profit_factor > 300))
    => Final = "info_edge"

(***************************************************************************)
(* C5 (as claimed): candidate whale, sports dominant, more than 2000       *)
(* positions, win rate > 58%, profit factor > 1.05 and avg size < $50K     *)
(* give the final label model_based with whale among the secondary labels, *)
(* for every CV.                                                           *)
(***************************************************************************)
C5_SportsModelRescue ==
    (/\ pc = "once"
     /\ Candidate = "whale"
     /\ TopCategory = "sports_betting" /\ TopShareAbove(40)
     /\ num_positions > 2000
     /\ flow.win_rate > 5800
     /\ flow.profit_factor > 105
     /\ sizing.avg_position_size < 50000)
    => Final = "model_based" /\ "whale" \in Range(Secondary)

(***************************************************************************)
(* C6 (as claimed): candidate whale with avg size < $10K and more than     *)
(* 3000 positions becomes market_maker when edge (win rate - 50%) < 3% and *)
(* positions > 20000, scalper when edge is between 3% and 15% and          *)
(* positions > 5000, and model_based in every other case.                  *)
(***************************************************************************)
AntiWhaleCase ==
    /\ pc = "once"
    /\ Candidate = "whale"
    /\ sizing.avg_position_size < 10000
    /\ num_positions > 3000

EvidenceExtended ==
    /\ Len(data.evidence) > Len(llm.evidence)
    /\ SubSeq(data.evidence, 1, Len(llm.evidence)) = llm.evidence
    /\ \A i \in (Len(llm.evidence) + 1)..Len(data.evidence) :
          data.evidence[i] = fired[i - Len(llm.evidence)]

C7_FrameAsClaimed ==
    pc = "once" =>
        /\ Final # Candidate =>
              Occurrences(Candidate, Secondary) = 1 /\ EvidenceExtended
        /\ fired = <<>> => data = llm

(***************************************************************************)
(* C7 (amended): whenever the engine changes the primary label, the input  *)
(* candidate is in secondary_strategies afterwards: appended once at the   *)
(* end if it was absent, and the list left exactly as it was if it was     *)
(* already there, however many rules fired (so a candidate the input list  *)
(* held twice is still there twice); one justification per fired rule is   *)
(* appended after the existing evidence entries; whenever no rule's        *)
(* condition holds, primary label, secondary labels and evidence are       *)
(* returned unchanged.                                                     *)
(***************************************************************************)
C7_FrameAmended ==
    pc = "once" =>
        /\ Final # Candidate =>
              /\ Secondary = IF Candidate \in Range(llm.secondary_strategies)
                             THEN llm.secondary_strategies
                             ELSE Append(llm.secondary_strategies, Candidate)
              /\ EvidenceExtended
        /\ fired = <<>> => data = llm

\* several rules fired on a candidate absent from the input secondary list
C7_Witness ==
    /\ pc = "once"
    /\ Final # Candidate
    /\ Len(fired) >= 2
    /\ llm.secondary_strategies = <<"hedger">>
    /\ Secondary = <<"hedger", Candidate>>
    /\ Len(llm.evidence) = 1

(***************************************************************************)
(* C8 (as claimed): within one invocation a later rule only fires when no  *)
(* earlier rule has fired: at most one rule replaces the label.            *)
(***************************************************************************)
C8_AtMostOneRule == pc \in {"once", "twice"} => Len(fired) <= 1

(***************************************************************************)
(* C9 (as claimed): in every run of run_analysis that produces a thesis,   *)
(* the thesis's primary label equals the override engine's output for the  *)
(* validated LLM candidate with that run's sizing, flow and market results.*)
(***************************************************************************)
C9_EngineApplied ==
    pc = "done" =>
        thesis[1].primary_strategy =
            ApplyHardOverrides(llm, sizing, flow, markets, num_positions,
                               profile).data.primary_strategy

(***************************************************************************)
(* C10: with the Sharpe metric absent the engine raises no error and only  *)
(* the Sharpe-gated conditions are off: the final label equals the one a   *)
(* metric value meeting no Sharpe threshold (0 <= Sharpe <= 0.8) gives.    *)
(***************************************************************************)
SharpeNeutral == SharpeValue # None /\ 0 <= SharpeValue[1] /\ SharpeValue[1] <= 80

C10_SharpeAbsent ==
    /\ pc # "raised"
    /\ (pc = "once" /\ SharpeNeutral) =>
          LET absent == ApplyHardOverrides(llm, sizing, flow, markets, num_positions, None)
          IN  ~absent.raised /\ Final = absent.data.primary_strategy

\* no metric, in the situation of the Sharpe-gated sports rescue: the engine
\* ran and left the whale label
C10_Witness ==
    /\ pc = "once"
    /\ SharpeValue = None
    /\ Candidate = "whale"
    /\ TopCategory = "sports_betting" /\ TopShareAbove(40)
    /\ num_positions = 500
    /\ flow.win_rate > 6000
    /\ flow.profit_factor <= 120
    /\ Final = "whale"

(***************************************************************************)
(* C11: the primary label is always one of the ten archetypes: for every   *)
(* candidate in the set the engine's final label is in the set, and in     *)
(* run_analysis a label outside the set is replaced by a member (or        *)
(* unknown) before the engine's step and before the thesis is built.       *)
(***************************************************************************)
C11_ClosedLabelSet ==
    /\ pc \in {"overrides", "thesis", "done"} =>
          /\ llm.primary_strategy \in StrategyType
          /\ data.primary_strategy \in StrategyType
          /\ Range(data.secondary_strategies) \subseteq StrategyType
    /\ pc = "done" => thesis[1].primary_strategy \in StrategyType
    /\ \A c \in StrategyType :
          ApplyHardOverrides([primary_strategy |-> c, secondary_strategies |-> <<>>,
                              evidence |-> <<>>],
                             sizing, flow, markets, num_positions,
                             profile).data.primary_strategy \in StrategyType

\* an answer whose label matches no archetype ends as a thesis labelled unknown
C11_Witness ==
    /\ pc = "done"
    /\ answer.primary_strategy = "day trader"
    /\ thesis[1].primary_strategy = "unknown"

(***************************************************************************)
(* Results with nothing in them: every count is 0, every quotient is 0,    *)
(* every collection and string is empty.                                   *)
(***************************************************************************)
FractionFields ==
    {"off_hours_pct", "weekend_pct", "avg_days_between_trades", "daily_consistency",
     "avg_position_size", "median_position_size", "variance", "cv_squared",
     "size_concentration", "avg_win_size", "avg_loss_size", "win_loss_size_ratio",
     "avg_entry_price", "low_odds_pct", "mid_odds_pct", "high_odds_pct",
     "category_concentration", "herfindahl_index", "markets_per_category", "yes_pct",
     "no_pct", "win_rate", "avg_win", "avg_loss", "profit_factor", "expectancy",
     "avg_entries_per_market", "risk_reward_ratio", "avg_win_streak", "avg_loss_streak",
     "max_drawdown_pct", "avg_recovery_length", "size_after_loss_ratio",
     "size_after_win_ratio", "first_half_winrate", "second_half_winrate", "pnl_curve_r2",
     "hedge_ratio", "avg_cluster_size", "avg_open_markets", "portfolio_turnover",
     "related_pct"}

ListFields ==
    {"signals", "hour_distribution", "peak_hours", "day_distribution", "category_counts",
     "category_pnl", "category_volume", "top_markets", "category_direction"}

TextFields == {"dominant_category", "trend_direction", "edge_trend"}

ZeroResult(r) ==
    \A f \in DOMAIN r :
        IF f \in FractionFields THEN r[f].num = 0 /\ r[f].den > 0
        ELSE IF f \in ListFields THEN r[f] = <<>>
        ELSE IF f \in TextFields THEN r[f] = ""
        ELSE IF f = "months" THEN r[f] = {}
        ELSE r[f] = 0

\* C12: for an empty position list every analyzer that has run has returned
\* a result whose counts and numeric fields are all zero and whose signal
\* list is empty, and all six analyzers run to the end
C12_EmptyListDefaults ==
    positions = <<>> =>
        \A k \in DOMAIN analysis : analysis[k] # None => ZeroResult(analysis[k][1])

C12_Witness ==
    /\ positions = <<>>
    /\ pc = "analyzed"
    /\ \A k \in DOMAIN analysis : analysis[k] # None

\* a quotient in [0, 1]
InUnitInterval(f) == f.den > 0 /\ 0 <= f.num /\ f.num <= f.den

UnitFields ==
    {"win_rate", "off_hours_pct", "weekend_pct", "daily_consistency", "size_concentration",
     "low_odds_pct", "mid_odds_pct", "high_odds_pct", "yes_pct", "no_pct", "hedge_ratio",
     "related_pct", "herfindahl_index"}

\* C13: for every list of well-formed positions, in every analyzer result
\* coefficient_of_variation >= 0 and herfindahl_index, win_rate,
\* off_hours_pct, weekend_pct, daily_consistency, size_concentration,
\* low/mid/high_odds_pct, yes_pct, no_pct, hedge_ratio and related_pct lie
\* in [0, 1]
C13_FractionsInUnitInterval ==
    \A k \in DOMAIN analysis :
        analysis[k] # None =>
            \A f \in DOMAIN analysis[k][1] :
                /\ f \in UnitFields => InUnitInterval(analysis[k][1][f])
                /\ f = "cv_squared" =>
                      analysis[k][1][f].den > 0 /\ analysis[k][1][f].num >= 0

\* the cumulative PnL peak from which the maximum drawdown of a list falls
DrawdownPeak(ps) == DrawdownScan(Cumulative(SortByTs(ps))).max_dd_peak

\* C14: the Pattern analyzer's max_drawdown is at most the peak cumulative
\* PnL at the start of that drawdown, so max_drawdown_pct <= 1, also when
\* cumulative PnL goes negative; and drawdown_duration_positions is 0
\* whenever max_drawdown is 0
C14_DrawdownWithinPeak ==
    analysis # None /\ analysis.patterns # None =>
        LET r == analysis.patterns[1]
        IN  /\ Len(positions) >= 2 => r.max_drawdown <= DrawdownPeak(positions)
            /\ r.max_drawdown_pct.den > 0
            /\ r.max_drawdown_pct.num <= r.max_drawdown_pct.den
            /\ r.max_drawdown = 0 => r.drawdown_duration_positions = 0

\* gross profit and gross loss of a list: the sums of its positive pnl and
\* of its pnl <= 0 (break-even positions count as losses)
GrossProfit(ps) == SumPnl(ps, {i \in 1..Len(ps) : ps[i].pnl > 0})
GrossLoss(ps) == Abs(SumPnl(ps, {i \in 1..Len(ps) : ps[i].pnl <= 0}))

\* C15: the Flow analyzer's profit factor is never infinite or undefined;
\* whenever gross loss is zero (no losing positions, or only break-even
\* ones) it equals gross profit divided by the floor 1
C15_ProfitFactorFinite ==
    analysis # None /\ analysis.flow # None /\ positions # <<>> =>
        LET profit_factor == analysis.flow[1].profit_factor
        IN  /\ profit_factor.den > 0
            /\ GrossLoss(positions) = 0 => profit_factor = Frac(GrossProfit(positions), 1)

\* C16: for a list of at least 2 positions that all have pnl = 0, the
\* Pattern analyzer returns max drawdown 0, max/avg win and loss streak and
\* current streak all 0, R^2 0 and no signals
C16_FlatPnlQuiet ==
    /\ analysis # None /\ analysis.patterns # None
    /\ Len(positions) >= 2
    /\ \A i \in 1..Len(positions) : positions[i].pnl = 0
    => LET r == analysis.patterns[1]
       IN  /\ r.max_drawdown = 0
           /\ r.max_win_streak = 0 /\ r.max_loss_streak = 0
           /\ r.avg_win_streak.num = 0 /\ r.avg_loss_streak.num = 0
           /\ r.current_streak = 0
           /\ r.pnl_curve_r2.num = 0
           /\ r.signals = <<>>

\* the maximal runs of a boolean sequence, read off the sequence itself:
\* a run starts where the value differs from the one before
RunStarts(rs) == {i \in 1..Len(rs) : i = 1 \/ rs[i] # rs[i - 1]}
RunLength(rs, i) == Max({m \in 1..(Len(rs) - i + 1) : \A k \in i..(i + m - 1) : rs[k] = rs[i]})

\* the lengths of the runs of value b, in the order of the sequence
RunLengths(rs, b) ==
    LET starts == {i \in RunStarts(rs) : rs[i] = b}
        Nth(r) == CHOOSE i \in starts : Cardinality({j \in starts : j < i}) = r - 1
    IN  [r \in 1..Cardinality(starts) |-> RunLength(rs, Nth(r))]

LongestRun(rs, b) == Max({0} \cup Range(RunLengths(rs, b)))

FinalRun(rs) ==
    IF rs = <<>> THEN 0
    ELSE LET len == RunLength(rs, Max(RunStarts(rs)))
         IN  IF rs[Len(rs)] THEN len ELSE 0 - len

\* C17: _compute_streaks decomposes every win/loss sequence into its
\* maximal runs: the win streaks and the loss streaks are the runs of wins
\* and of losses in order, their lengths sum to the length of the sequence,
\* max_win_streak and max_loss_streak are the longest run of each sign, and
\* current_streak is the signed length of the final run
C17_StreaksCoverSequence ==
    pc = "streaks" =>
        LET st == analysis[1]
        IN  /\ st.win_streaks = RunLengths(results, TRUE)
            /\ st.loss_streaks = RunLengths(results, FALSE)
            /\ Sum(st.win_streaks) + Sum(st.loss_streaks) = Len(results)
            /\ Len(st.win_streaks) + Len(st.loss_streaks) = Cardinality(RunStarts(results))
            /\ st.max_w = LongestRun(results, TRUE)
            /\ st.max_l = LongestRun(results, FALSE)
            /\ st.current_streak = FinalRun(results)

C17_Witness ==
    /\ pc = "streaks"
    /\ results = <<TRUE, TRUE, FALSE, TRUE, FALSE, FALSE, FALSE>>
    /\ analysis[1].win_streaks = <<2, 1>>
    /\ analysis[1].loss_streaks = <<1, 3>>
    /\ analysis[1].current_streak = -3

\* the result of the analyzer stored under key k of analysis
Analyzer(k, ps) ==
    CASE k = "timing" -> AnalyzeTiming(ps)
      [] k = "sizing" -> AnalyzeSizing(ps)
      [] k = "markets" -> AnalyzeMarkets(ps)
      [] k = "flow" -> AnalyzeFlow(ps)
      [] k = "patterns" -> AnalyzePatterns(ps)
      [] k = "correlations" -> AnalyzeCorrelations(ps)

\* the reorderings of a list
Reorderings(ps) == {[i \in 1..Len(ps) |-> ps[pi[i]]] : pi \in Permutations(1..Len(ps))}

\* two results agree on every count, every quotient and the dominant category
SameNumbers(a, b) ==
    \A f \in DOMAIN a \ (ListFields \cup {"trend_direction", "edge_trend", "months"}) :
        IF f \in FractionFields
        THEN a[f].num * b[f].den = b[f].num * a[f].den /\ (a[f].den = 0 <=> b[f].den = 0)
        ELSE a[f] = b[f]

\* C18: each analyzer's numeric result depends only on the multiset of
\* positions: every permutation of the list, also of positions that share a
\* timestamp, gives the same result
C18_OrderIndependent ==
    analysis # None =>
        \A k \in DOMAIN analysis :
            analysis[k] # None =>
                \A q \in Reorderings(positions) : SameNumbers(Analyzer(k, q), analysis[k][1])

\* c is the one category of title t: the first of the seven, in rule order,
\* with a matching pattern, and "other" when none matches
IsCategoryOf(c, t) ==
    IF Matches[t] = {} THEN c = "other"
    ELSE /\ c \in Matches[t]
         /\ \E i \in 1..Len(CategoryOrder) :
               /\ CategoryOrder[i] = c
               /\ \A j \in 1..(i - 1) : CategoryOrder[j] \notin Matches[t]

\* C19: every position title is assigned exactly one category, the first in
\* the order sports, politics, crypto, economics, entertainment,
\* science/tech, weather with a matching pattern, other when none matches;
\* category_counts counts the positions of each category and its counts
\* sum to the number of positions
C19_OneCategoryPerPosition ==
    analysis # None /\ analysis.markets # None /\ positions # <<>> =>
        LET counts == analysis.markets[1].category_counts
            Assigned(c) == {i \in 1..Len(positions) : IsCategoryOf(c, positions[i].t)}
        IN  /\ \A t \in Titles : IsCategoryOf(_categorize_market(t), t)
            /\ \A i \in 1..Len(positions) :
                  /\ IsCategoryOf(_categorize_market(positions[i].t), positions[i].t)
                  /\ Cardinality({c \in Range(CategoryOrder) \cup {"other"} :
                                     IsCategoryOf(c, positions[i].t)}) = 1
            /\ \A r \in 1..Len(counts) :
                  /\ counts[r].count = Cardinality(Assigned(counts[r].key))
                  /\ counts[r].count > 0
                  /\ \A q \in 1..Len(counts) : counts[q].key = counts[r].key => q = r
            /\ Sum([r \in 1..Len(counts) |-> counts[r].count]) = Len(positions)

C19_Witness ==
    /\ pc = "analyzed"
    /\ Len(positions) = 3
    /\ positions[1].t = "Trump vs Biden"
    /\ positions[2].t = ""
    /\ positions[3].t = "bitcoin election"
    /\ analysis.markets[1].category_counts
          = <<[key |-> "sports_betting", count |-> 1], [key |-> "other", count |-> 1],
              [key |-> "politics", count |-> 1]>>

\* the hint step of the run has produced its text: it has been passed and
\* has not ended in its except branch
HintsGenerated ==
    /\ pc \in {"llm", "validate", "overrides", "thesis", "done"}
    /\ \A i \in 1..Len(errors) : errors[i] # "Rule-based hints failed"

\* C20: the hint generator is advisory and read-only, changing no analyzer
\* result and no label, and in the pipeline it runs before the candidate
\* label is proposed and before the override engine: by the time the LLM
\* has answered, the hints have been generated, and until then no label
\* exists and the engine has not fired
C20_HintsBeforeLabel ==
    /\ pc \in {"start", "skills", "hints"} => answer = None /\ data = None /\ fired = <<>>
    /\ pc \in {"validate", "overrides", "thesis", "done"} => HintsGenerated

(***************************************************************************)
(* C21 (as claimed): re-applying the engine on fixed analyzer results      *)
(* never oscillates.  If the first pass overrides candidate A to a         *)
(* different label B, the second pass, entered with B, does not override   *)
(* it back to A.                                                           *)
(***************************************************************************)
C21_NoOscillation ==
    (pc = "twice" /\ once.primary_strategy # Candidate) => Final # Candidate

(***************************************************************************)
(* C22: every rule of one invocation is gated on the input candidate       *)
(* label, never on a label set by an earlier rule of the same pass.  The   *)
(* rules whose conditions hold for the input label all fire, in code       *)
(* order; the final label is the target of the last of them (the candidate *)
(* if none holds) and the evidence list gains one string per fired rule,   *)
(* in firing order.                                                        *)
(***************************************************************************)
\* the input labels each rule's guard admits, read off the rule's first test
GuardLabels(name) ==
    IF name \in {"sports_whale", "general_whale"} THEN StrategyType \ {"whale"}
    ELSE IF name = "market_maker_override" THEN StrategyType \ {"market_maker"}
    ELSE IF name = "model_based_to_info_edge" THEN {"model_based"}
    ELSE IF name \in {"info_edge_to_model_based", "info_edge_sports"} THEN {"info_edge"}
    ELSE IF name = "contrarian" THEN {"scalper", "model_based"}
    ELSE IF name \in {"scalper_sports", "scalper_high_count_cv",
                      "scalper_high_count_volume"} THEN {"scalper"}
    ELSE IF name \in {"market_maker_sports", "market_maker_rescue"} THEN {"market_maker"}
    ELSE {"whale"}

\* the rules whose conditions hold for the input label, in code order
HeldRules ==
    SelectSeq(Rules(Candidate, sizing, flow, markets, num_positions, SharpeValue),
              LAMBDA rule : rule.fires)

C23_SharesOfAllPositions ==
    pc = "once" =>
        /\ SportsDominant(markets) => TopCategory = "sports_betting" /\ TopShareAbove(40)
        /\ CryptoDominant(markets) => TopCategory = "crypto" /\ TopShareAbove(60)
        /\ "market_maker_override" \in Range(fired) =>
              (Final = "scalper" <=> TopCategory = "crypto" /\ TopShareAbove(60))

(***************************************************************************)
(* C24 (as claimed): the rules test the measured win rate and profit       *)
(* factor.  The near-50% market-maker / crypto-scalper override never      *)
(* fires for a wallet whose measured win rate is 0 or whose measured       *)
(* profit factor is 0.                                                     *)
(***************************************************************************)
C24_MeasuredRates ==
    (pc = "once" /\ (flow.win_rate = 0 \/ flow.profit_factor = 0))
    => "market_maker_override" \notin Range(fired)

(***************************************************************************)
(* C25 (as claimed): temporal clusters are counted with a sliding 1-hour   *)
(* window.  Whenever some group of 3 or more positions has all timestamps  *)
(* within one hour of each other and spans at least 2 distinct markets,    *)
(* temporal_clusters >= 1 and a counted cluster is large enough to hold    *)
(* the group.                                                              *)
(***************************************************************************)
\* the groups of 3+ positions within one hour of each other, in 2+ markets
HourGroups ==
    {G \in SUBSET (1..Len(positions)) :
        /\ Cardinality(G) >= 3
        /\ \A i, j \in G : positions[i].ts - positions[j].ts <= 3600
        /\ Cardinality({positions[i].cid : i \in G}) >= 2}

C25_SlidingWindowClusters ==
    pc = "analyzed" =>
        \A G \in HourGroups :
            /\ analysis.correlations[1].temporal_clusters >= 1
            /\ analysis.correlations[1].max_cluster_size >= Cardinality(G)

(***************************************************************************)
(* C26 (as claimed): simultaneous_open_markets is the interval-overlap     *)
(* peak: the maximum over time t of the number of distinct markets with at *)
(* least one position with ts <= t < ts + 7 days (positions with ts > 0),  *)
(* also when a market holds several positions whose intervals overlap.     *)
(***************************************************************************)
\* the markets open at time t; the peak is attained when a position opens
OpenMarketsAt(t) ==
    {positions[i].cid : i \in {j \in 1..Len(positions) :
        /\ positions[j].ts > 0
        /\ positions[j].ts <= t
        /\ t < positions[j].ts + 7 * 86400}}

OverlapPeak ==
    Max({Cardinality(OpenMarketsAt(positions[i].ts)) : i \in 1..Len(positions)} \cup {0})

C26_OpenMarketsPeak ==
    pc = "analyzed" => analysis.correlations[1].simultaneous_open_markets = OverlapPeak

(***************************************************************************)
(* C27 (as claimed): the flow trend is improving exactly when the mean     *)
(* monthly PnL of the most recent three months is more than 1.5 times the  *)
(* mean of the earliest three months, declining exactly when it is less    *)
(* than 0.5 times, and stable otherwise (so stable when the two means are  *)
(* equal, also when they are negative); with fewer than 3 distinct months  *)
(* it is insufficient_data.  (Of a wallet with at least one position.)     *)
(***************************************************************************)
\* the PnL of each calendar month with a timed position, in calendar order
MonthlyPnl ==
    LET timed == {i \in 1..Len(positions) : positions[i].ts > 0}
        traded == SelectSeq(MonthNames,
                            LAMBDA m : \E i \in timed : MonthOf(positions[i].ts) = m)
    IN  [k \in 1..Len(traded) |->
            SumPnl(positions, {i \in timed : MonthOf(positions[i].ts) = traded[k]})]

\* both means are over three months, so the means compare as the sums do
ClaimedTrend ==
    LET count == Len(MonthlyPnl)
        latest == Sum(SubSeq(MonthlyPnl, count - 2, count))
        earliest == Sum(SubSeq(MonthlyPnl, 1, 3))
    IN  IF count < 3 THEN "insufficient_data"
        ELSE IF 2 * latest > 3 * earliest THEN "improving"
        ELSE IF 2 * latest < earliest THEN "declining"
        ELSE "stable"

C27_TrendByThreeMonthMeans ==
    (pc = "patterns" /\ positions # <<>>) =>
        analysis.flow[1].trend_direction = ClaimedTrend

(***************************************************************************)
(* C28 (as claimed): when max drawdown > 0, drawdown_duration_positions is *)
(* the number of positions from the trough of the single largest drawdown  *)
(* until cumulative PnL first re-reaches the peak that preceded it, for    *)
(* every PnL sequence.  Counting the trough as the first position: the     *)
(* position the count ends on is the first one, from the trough on, at     *)
(* which cumulative PnL is back at that peak.                              *)
(***************************************************************************)
C28_RecoveryReachesPeak ==
    (pc = "analyzed" /\ analysis.patterns[1].max_drawdown > 0) =>
        LET cumulative == Cumulative(SortByTs(positions))
            trough == DrawdownScan(cumulative).max_dd_end + 1
            count == analysis.patterns[1].drawdown_duration_positions
            last == trough + count - 1
        IN  /\ count >= 1
            /\ last <= Len(cumulative)
            /\ cumulative[last] >= DrawdownPeak(positions)
            /\ \A i \in trough..(last - 1) : cumulative[i] < DrawdownPeak(positions)

(***************************************************************************)
(* C29 (as claimed): rollback_changes rolls back only the most recent      *)
(* improvement cycle.  After a rollback every file of skills/ and the      *)
(* executor prompts file that existed before the latest cycle has the      *)
(* content it had before that cycle: a file the latest cycle wrote is      *)
(* restored, and a file changed only by earlier kept cycles stays at its   *)
(* kept content.  (The .bak copies and the generated skills/__init__.py    *)
(* are left out of the comparison.)                                        *)
(***************************************************************************)
\* inside the skills/ directory, or the agent/executor/prompts file
Inside(location) ==
    \/ Len(location) >= 2 /\ location[1] = "skills"
    \/ location = <<"agent", "executor", "prompts.py">>

LatestCycle == cycles[Len(cycles)]

IsBackupCopy(location) == \E l \in DOMAIN LatestCycle.before : Backup(l) = location

C29_RollbackLatestCycleOnly ==
    pc = "rolled_back" =>
        \A l \in DOMAIN LatestCycle.before :
            (Inside(l) /\ ~IsBackupCopy(l) /\ l # <<"skills", "__init__.py">>)
            => l \in DOMAIN files /\ files[l] = LatestCycle.before[l]

(***************************************************************************)
(* C30 (as claimed): run_improvement_cycle writes only files inside the    *)
(* skills/ directory or the agent/executor/prompts file.  Every proposed   *)
(* change whose target resolves to any other location is skipped: it is    *)
(* not among the applied changes, and neither that location nor its .bak   *)
(* is created or written.                                                  *)
(***************************************************************************)
SameAsBefore(location) ==
    /\ location \in DOMAIN files <=> location \in DOMAIN LatestCycle.before
    /\ location \in DOMAIN files => files[location] = LatestCycle.before[location]

C30_WritesOnlyAllowedFiles ==
    pc = "reeval" =>
        \A i \in 1..Len(LatestCycle.proposed) :
            LET location == Resolve(LatestCycle.proposed[i].file)
            IN  ~Inside(location) =>
                    /\ LatestCycle.proposed[i] \notin Range(LatestCycle.changes_applied)
                    /\ SameAsBefore(location)
                    /\ SameAsBefore(Backup(location))

====
